---- MODULE Spec2Model ----
(***************************************************************************)
(* A model of the SysY compiler of this repository: the lowering of the    *)
(* AST to Koopa IR (src/src/ast.cpp) and the emission of RISC-V assembly   *)
(* from the IR (src/src/main.cpp).                                         *)
(*                                                                         *)
(* The lowering is a state machine over the SymbolTableManager, the naming *)
(* counters and the output stream.  Statements are lowered one handler     *)
(* phase per action; the statement to lower next is an input, drawn from a *)
(* bounded set when its handler starts.  Expressions are lowered by        *)
(* recursive operators that thread the lowering context.                   *)
(***************************************************************************)
EXTENDS Integers, Sequences, FiniteSets, TLC

VARIABLES
  table_stack,      \* SymbolTableManager::table_stack, innermost scope last
  symbol_counter,   \* SymbolTableManager::symbol_counter
  loop_stack,       \* SymbolTableManager::loop_stack
  next_reg,         \* the temporary counter
  if_stmt_count,    \* label counters
  lor_stmt_count,
  land_stmt_count,
  while_stmt_count,
  os,               \* the IR written so far, one record per line
  err,              \* "" or the message of the exception that ended lowering
  ctl,              \* the pending generate_ir calls, innermost last
  ret,              \* IRResult.is_terminated of the call that just returned
  items,            \* top-level items lowered so far
  stmts,            \* statements lowered in the current function
  be,               \* the code generator's state (main.cpp)
  ex                \* the machine that runs emitted IR

vars == <<table_stack, symbol_counter, loop_stack, next_reg, if_stmt_count,
          lor_stmt_count, land_stmt_count, while_stmt_count, os, err, ctl,
          ret, items, stmts, be, ex>>

lowerVars == <<table_stack, symbol_counter, loop_stack, next_reg,
               if_stmt_count, lor_stmt_count, land_stmt_count,
               while_stmt_count, os, err, ctl, ret, items, stmts>>

(***************************************************************************)
(* Operands and IR lines.  The code writes text; a line is kept as the     *)
(* record of its parts, an operand as the record of its sigil and name.    *)
(***************************************************************************)
None == [k |-> "none", n |-> 0, s |-> ""]
Lit(n) == [k |-> "lit", n |-> n, s |-> ""]
Tmp(n) == [k |-> "tmp", n |-> n, s |-> ""]
Sym(s) == [k |-> "sym", n |-> 0, s |-> s]
Arg(s) == [k |-> "arg", n |-> 0, s |-> s]

Line(op, dst, a, b) ==
  [op |-> op, dst |-> dst, a |-> a, b |-> b, name |-> "", l1 |-> "",
   l2 |-> "", args |-> <<>>, n |-> 0, ty |-> ""]

Label(l) == [Line("label", None, None, None) EXCEPT !.name = l]
Jump(l) == [Line("jump", None, None, None) EXCEPT !.l1 = l]
Br(cond, t, f) == [Line("br", None, cond, None) EXCEPT !.l1 = t, !.l2 = f]
Ret(v) == Line("ret", None, v, None)
Store(v, p) == Line("store", None, v, p)
Load(d, p) == Line("load", d, p, None)
Alloc(d, ty, n) == [Line("alloc", d, None, None) EXCEPT !.ty = ty, !.n = n]

\* std::to_string and string concatenation, as in "then_" + std::to_string(id)
Suffix(s, n) == s \o "_" \o ToString(n)

(***************************************************************************)
(* The lowering context: the SymbolTableManager, the counters and the      *)
(* stream, as one record that the operators below transform.  After a      *)
(* throw (err /= "") nothing more is written or changed.                   *)
(***************************************************************************)
Cx ==
  [ts |-> table_stack, sc |-> symbol_counter, ls |-> loop_stack,
   reg |-> next_reg, ifc |-> if_stmt_count, lorc |-> lor_stmt_count,
   landc |-> land_stmt_count, whc |-> while_stmt_count, os |-> os,
   err |-> err]

SetCx(c) ==
  /\ table_stack' = c.ts
  /\ symbol_counter' = c.sc
  /\ loop_stack' = c.ls
  /\ next_reg' = c.reg
  /\ if_stmt_count' = c.ifc
  /\ lor_stmt_count' = c.lorc
  /\ land_stmt_count' = c.landc
  /\ while_stmt_count' = c.whc
  /\ os' = c.os
  /\ err' = c.err

Ok(c) == c.err = ""

Throw(c, msg) == IF Ok(c) THEN [c EXCEPT !.err = msg] ELSE c

Emit(c, line) == IF Ok(c) THEN [c EXCEPT !.os = Append(@, line)] ELSE c

\* a counter of temporaries that skips a number
BumpRegTwice(c) == IF Ok(c) THEN [c EXCEPT !.reg = @ + 2] ELSE c

\* "%" + std::to_string(next_reg++)
BumpReg(c) == IF Ok(c) THEN [c EXCEPT !.reg = @ + 1] ELSE c

(***************************************************************************)
(* SymbolTableManager                                                      *)
(***************************************************************************)
SymbolInfo(name, value, is_const, kind, type, dims) ==
  [name |-> name, unique_name |-> "", value |-> value, is_const |-> is_const,
   kind |-> kind, type |-> type, dimensions |-> dims]

EmptyScope == [x \in {} |-> 0]

enter_scope(c) == IF Ok(c) THEN [c EXCEPT !.ts = Append(@, EmptyScope)] ELSE c

\* a manager that never leaves a scope
KeepScope(c) == c

exit_scope(c) ==
  IF ~Ok(c) THEN c
  ELSE IF c.ts = <<>> THEN Throw(c, "No symbol table to exit")
  ELSE [c EXCEPT !.ts = SubSeq(@, 1, Len(@) - 1)]

is_global_scope(ts) == Len(ts) = 1

CounterOf(sc, name) == IF name \in DOMAIN sc THEN sc[name] ELSE 0

\* The do-while of add_symbol: take symbol_counter[name]++ until the
\* candidate is no key of the global scope.  Yields the counter value after
\* the loop and the count the candidate was built from.
RECURSIVE Reroll(_, _, _)
Reroll(name, count, global) ==
  IF Suffix(name, count) \in DOMAIN global
    THEN Reroll(name, count + 1, global)
    ELSE [count |-> count, next |-> count + 1]

UniqueName(name, count) == Suffix(name, count)

\* a scope in which no name counts as declared
NeverDeclared(scope, name) == FALSE

\* var_table.count(name) of a scope
Declared(scope, name) == name \in DOMAIN scope

\* add_symbol(symbol): the manager after the call, whether it returned true,
\* and the caller's symbol record, whose unique_name the call sets.
add_symbol(c, symbol) ==
  IF ~Ok(c) THEN [c |-> c, ok |-> FALSE, symbol |-> symbol]
  ELSE IF c.ts = <<>>
    THEN [c |-> Throw(c, "No symbol table to add symbol"), ok |-> FALSE,
          symbol |-> symbol]
  ELSE
    LET top == Len(c.ts)
        current_scope == c.ts[top]
    IN IF Declared(current_scope, symbol.name)
         THEN [c |-> c, ok |-> FALSE, symbol |-> symbol]
       ELSE IF is_global_scope(c.ts)
         THEN LET s == [symbol EXCEPT !.unique_name = symbol.name]
              IN [c |-> [c EXCEPT !.ts[top] = (symbol.name :> s) @@ current_scope],
                  ok |-> TRUE, symbol |-> s]
       ELSE
         LET r == Reroll(symbol.name, CounterOf(c.sc, symbol.name), c.ts[1])
             s == [symbol EXCEPT
                     !.unique_name = UniqueName(symbol.name, r.count)]
         IN [c |-> [c EXCEPT
                      !.ts[top] = (symbol.name :> s) @@ current_scope,
                      !.sc = (symbol.name :> r.next) @@ c.sc],
             ok |-> TRUE, symbol |-> s]

\* lookup_symbol(name): the innermost scope that binds name, 0 if none does
RECURSIVE LookupFrom(_, _, _)
LookupFrom(ts, name, i) ==
  IF i = 0 THEN 0
  ELSE IF name \in DOMAIN ts[i] THEN i
  ELSE LookupFrom(ts, name, i - 1)

\* a search that starts at the global scope
OutermostScope(ts, name) ==
  IF \E i \in 1..Len(ts) : name \in DOMAIN ts[i]
    THEN CHOOSE i \in 1..Len(ts) :
           /\ name \in DOMAIN ts[i]
           /\ \A j \in 1..(i - 1) : name \notin DOMAIN ts[j]
    ELSE 0

lookup_scope(ts, name) == LookupFrom(ts, name, Len(ts))

Bound(ts, name) == lookup_scope(ts, name) /= 0

lookup_symbol(ts, name) == ts[lookup_scope(ts, name)][name]

enter_loop(c, entry_label, exit_label) ==
  IF Ok(c)
    THEN [c EXCEPT !.ls = Append(@, [break_label |-> exit_label,
                                     continue_label |-> entry_label])]
    ELSE c

\* a loop that is never taken off the stack
KeepLoop(c) == c

exit_loop(c) ==
  IF ~Ok(c) THEN c
  ELSE IF c.ls = <<>> THEN Throw(c, "No loop to exit")
  ELSE [c EXCEPT !.ls = SubSeq(@, 1, Len(@) - 1)]

\* a manager whose symbol counters outlive the function
KeepSymbolCounter(c) == c

clear_symbol_counter(c) == IF Ok(c) THEN [c EXCEPT !.sc = EmptyScope] ELSE c


(***************************************************************************)
(* The AST of expressions.  The grammar's forwarding nodes (an AddExp that *)
(* is only a MulExp, a PrimaryExp in parentheses, ExpAST, InitValAST with  *)
(* one expression) emit nothing and pass the result on, so a node is kept  *)
(* for each form that does something.                                      *)
(***************************************************************************)
Node(t, v, id, op, kids) ==
  [t |-> t, v |-> v, id |-> id, op |-> op, kids |-> kids]

Num(v) == Node("num", v, "", "", <<>>)               \* PrimaryExpAST.number
LVal(id) == Node("lval", 0, id, "", <<>>)            \* LValAST, no index
Idx(id, idx) == Node("lval", 0, id, "", idx)         \* LValAST, indexed
Un(op, e) == Node("un", 0, "", op, <<e>>)            \* UnaryExpAST.unary_op
Bin(op, l, r) == Node("bin", 0, "", op, <<l, r>>)    \* Mul/Add/Rel/EqExpAST
LOr(l, r) == Node("lor", 0, "", "||", <<l, r>>)      \* LOrExpAST
LAnd(l, r) == Node("land", 0, "", "&&", <<l, r>>)    \* LAndExpAST
Call(id, args) == Node("call", 0, id, "", args)      \* UnaryExpAST.ident
ConstExp(e) == Node("constexp", 0, "", "", <<e>>)    \* ConstExpAST

(***************************************************************************)
(* The constant evaluator: evaluate_const of every expression node.       *)
(* [ok, v]: the integer, or ok = FALSE when the node throws.               *)
(***************************************************************************)
\* C's / and % truncate toward zero
CDiv(a, b) ==
  IF (a >= 0) = (b > 0) THEN (IF a >= 0 THEN a \div b ELSE (-a) \div (-b))
  ELSE -((IF a >= 0 THEN a ELSE -a) \div (IF b >= 0 THEN b ELSE -b))

CMod(a, b) == a - b * CDiv(a, b)

BoolInt(b) == IF b THEN 1 ELSE 0

BinValue(op, l, r) ==
  CASE op = "+" -> l + r
    [] op = "-" -> l - r
    [] op = "*" -> l * r
    [] op = "/" -> CDiv(l, r)
    [] op = "%" -> CMod(l, r)
    [] op = "<" -> BoolInt(l < r)
    [] op = ">" -> BoolInt(l > r)
    [] op = "<=" -> BoolInt(l <= r)
    [] op = ">=" -> BoolInt(l >= r)
    [] op = "==" -> BoolInt(l = r)
    [] op = "!=" -> BoolInt(l /= r)

UnValue(op, v) ==
  CASE op = "+" -> v
    [] op = "-" -> -v
    [] op = "!" -> BoolInt(v = 0)

Failed(msg) == [ok |-> FALSE, v |-> 0, msg |-> msg]
Value(v) == [ok |-> TRUE, v |-> v, msg |-> ""]

\* LValAST::evaluate_const
LValConst(e, ts) ==
  IF ~Bound(ts, e.id) THEN Failed("Undefined variable")
  ELSE IF e.kids /= <<>>
    THEN Failed("Cannot evaluate array element in constant expression")
  ELSE Value(lookup_symbol(ts, e.id).value)

RECURSIVE evaluate_const(_, _)
evaluate_const(e, ts) ==
  CASE e.t = "num" -> Value(e.v)
    [] e.t = "lval" -> LValConst(e, ts)
    [] e.t = "constexp" -> evaluate_const(e.kids[1], ts)
    [] e.t = "un" ->
         LET r == evaluate_const(e.kids[1], ts)
         IN IF r.ok THEN Value(UnValue(e.op, r.v)) ELSE r
    [] e.t = "call" ->
         Failed("Cannot evaluate function call in constant expression")
    [] e.t = "list" ->
         Failed("Cannot evaluate initializer list in constant expression")
    [] e.t = "bin" ->
         LET l == evaluate_const(e.kids[1], ts)
             r == evaluate_const(e.kids[2], ts)
         IN IF ~l.ok THEN l ELSE IF ~r.ok THEN r
            ELSE Value(BinValue(e.op, l.v, r.v))
    [] e.t = "land" ->
         LET l == evaluate_const(e.kids[1], ts)
             r == evaluate_const(e.kids[2], ts)
         IN IF ~l.ok THEN l ELSE IF ~r.ok THEN r
            ELSE Value(BoolInt(l.v /= 0 /\ r.v /= 0))
    [] e.t = "lor" ->
         LET l == evaluate_const(e.kids[1], ts)
             r == evaluate_const(e.kids[2], ts)
         IN IF ~l.ok THEN l ELSE IF ~r.ok THEN r
            ELSE Value(BoolInt(l.v /= 0 \/ r.v /= 0))


(***************************************************************************)
(* generate_ir of the expression nodes.  [c, v]: the context after the     *)
(* call and IRResult.value.                                                *)
(***************************************************************************)
RECURSIVE Product(_, _)
Product(dims, from) ==
  IF from > Len(dims) THEN 1 ELSE dims[from] * Product(dims, from + 1)

\* a stride that takes in the length of the indexed dimension itself
StrideFrom(dims, i) == Product(dims, i)

\* the stride of index i (counted from 1): the lengths after it, multiplied
Stride(dims, i) == Product(dims, i + 1)

OpName(op) ==
  CASE op = "+" -> "add" [] op = "-" -> "sub" [] op = "*" -> "mul"
    [] op = "/" -> "div" [] op = "%" -> "mod" [] op = "==" -> "eq"
    [] op = "!=" -> "ne" [] op = "<" -> "lt" [] op = ">" -> "gt"
    [] op = "<=" -> "le" [] op = ">=" -> "ge"

UnOpName(op) ==
  CASE op = "+" -> "add" [] op = "-" -> "sub" [] op = "!" -> "eq"

CallLine(dst, callee, args) ==
  [Line("call", dst, None, None) EXCEPT !.name = callee, !.args = args]

\* a branch of || that evaluates the right operand when the left is true
LOrBranchRhs(lhs_bool, eval_rhs_label, end_label) ==
  Br(lhs_bool, eval_rhs_label, end_label)

\* the branch of a short-circuit operator on its booleanised left operand
LOrBranch(lhs_bool, eval_rhs_label, end_label) ==
  Br(lhs_bool, end_label, eval_rhs_label)

LAndBranch(lhs_bool, eval_rhs_label, end_label) ==
  Br(lhs_bool, eval_rhs_label, end_label)

\* a lowering that loads every scalar, const or not
ScalarLoad(symbol, c) ==
  [c |-> Emit(BumpReg(c), Load(Tmp(c.reg), Sym(symbol.unique_name))),
   v |-> Tmp(c.reg)]

\* a reference to a scalar symbol: the folded literal of a const, else a load
ScalarRef(symbol, c) ==
  IF symbol.is_const THEN [c |-> c, v |-> Lit(symbol.value)]
  ELSE [c |-> Emit(BumpReg(c), Load(Tmp(c.reg), Sym(symbol.unique_name))),
        v |-> Tmp(c.reg)]

\* the multiplication of an index by its stride in LValAST::generate_ir
IndexTerm(index_val, stride, c) ==
  IF stride > 1
    THEN [c |-> Emit(BumpReg(c), Line("mul", Tmp(c.reg), index_val, Lit(stride))),
          v |-> Tmp(c.reg)]
    ELSE [c |-> c, v |-> index_val]

\* the head shared by the two short-circuit lowerings: the result slot
ShortHead(kind, current_id, c) ==
  Emit(c, Alloc(Sym(Suffix(kind \o "_res", current_id)), "i32", 0))

\* what follows the left operand: its truth value is stored and branched on
ShortMid(kind, current_id, lhs_res, branch) ==
  Emit(Emit(Emit(Emit(BumpReg(lhs_res.c),
                      Line("ne", Tmp(lhs_res.c.reg), Lit(0), lhs_res.v)),
                 Store(Tmp(lhs_res.c.reg), Sym(Suffix(kind \o "_res", current_id)))),
            branch),
       Label(Suffix(kind \o "_eval_rhs", current_id)))

\* LOrExpAST::generate_ir between the operands
LOrMid(current_id, lhs_res) ==
  ShortMid("lor", current_id, lhs_res,
           LOrBranch(Tmp(lhs_res.c.reg), Suffix("lor_eval_rhs", current_id),
                     Suffix("lor_end", current_id)))

\* LAndExpAST::generate_ir between the operands
LAndMid(current_id, lhs_res) ==
  ShortMid("land", current_id, lhs_res,
           LAndBranch(Tmp(lhs_res.c.reg), Suffix("land_eval_rhs", current_id),
                      Suffix("land_end", current_id)))

\* what follows the right operand: its truth value is stored, the end block
\* opens and loads the slot
\* an end block that hands on the truth value of the right operand itself
ShortNoLoad(kind, current_id, c9) == [c |-> c9, v |-> Tmp(c9.reg - 1)]

ShortLoad(kind, current_id, c9) ==
  [c |-> Emit(BumpReg(c9), Load(Tmp(c9.reg), Sym(Suffix(kind \o "_res", current_id)))),
   v |-> Tmp(c9.reg)]

ShortTail(kind, current_id, rhs_res) ==
  ShortLoad(kind, current_id,
    Emit(Emit(Emit(Emit(BumpReg(rhs_res.c),
                        Line("ne", Tmp(rhs_res.c.reg), Lit(0), rhs_res.v)),
                   Store(Tmp(rhs_res.c.reg), Sym(Suffix(kind \o "_res", current_id)))),
              Jump(Suffix(kind \o "_end", current_id))),
         Label(Suffix(kind \o "_end", current_id))))

RECURSIVE generate_ir(_, _)
RECURSIVE IndexLoop(_, _, _, _)
RECURSIVE ArgsLoop(_, _, _, _)

\* one round of the loop of LValAST::generate_ir: the scaled index is added
\* to the running offset
IndexAdd(term, running) ==
  [c |-> Emit(BumpReg(term.c), Line("add", Tmp(term.c.reg), running, term.v)),
   v |-> Tmp(term.c.reg)]

IndexStep(index_val, stride, running) ==
  IndexAdd(IndexTerm(index_val.v, stride, index_val.c), running)

\* the loop of LValAST::generate_ir over array_index_exps
IndexLoop(e, dims, i, acc) ==
  IF i > Len(e.kids) \/ ~Ok(acc.c) THEN acc
  ELSE IndexLoop(e, dims, i + 1,
                 IndexStep(generate_ir(e.kids[i], acc.c), Stride(dims, i), acc.v))

\* the zero the running offset starts from
OffsetZero(c) ==
  [c |-> Emit(BumpReg(c), Line("add", Tmp(c.reg), Lit(0), Lit(0))),
   v |-> Tmp(c.reg)]

\* the base of an indexed array: the loaded pointer of an array parameter,
\* else the array itself
ArrayBase(symbol, c) ==
  IF symbol.dimensions[1] = 0
    THEN [c |-> Emit(BumpReg(c), Load(Tmp(c.reg), Sym(symbol.unique_name))),
          v |-> Tmp(c.reg)]
    ELSE [c |-> c, v |-> Sym(symbol.unique_name)]

\* getptr on an array parameter, getelemptr on an array
ElemPtr(symbol, arr, lp) ==
  [c |-> Emit(BumpReg(lp.c),
              Line(IF symbol.dimensions[1] = 0 THEN "getptr" ELSE "getelemptr",
                   Tmp(lp.c.reg), arr, lp.v)),
   v |-> Tmp(lp.c.reg)]

\* the end of an indexed reference: the pointer of a partial reference, the
\* loaded element otherwise
ElemRef(e, symbol, p) ==
  IF Len(e.kids) < Len(symbol.dimensions) THEN p
  ELSE [c |-> Emit(BumpReg(p.c), Load(Tmp(p.c.reg), p.v)), v |-> Tmp(p.c.reg)]

IndexedRef(e, symbol, base) ==
  ElemRef(e, symbol,
          ElemPtr(symbol, base.v,
                  IndexLoop(e, symbol.dimensions, 1, OffsetZero(base.c))))

\* a whole array as an argument: the pointer to its first element
DecayPtr(load_reg, c1) ==
  [c |-> Emit(BumpReg(c1), Line("getptr", Tmp(c1.reg), load_reg, Lit(0))),
   v |-> Tmp(c1.reg)]

ArrayRef(symbol, c) ==
  IF symbol.dimensions[1] = 0
    THEN DecayPtr(Tmp(c.reg),
                  Emit(BumpReg(c), Load(Tmp(c.reg), Sym(symbol.unique_name))))
    ELSE [c |-> Emit(BumpReg(c), Line("getelemptr", Tmp(c.reg),
                                      Sym(symbol.unique_name), Lit(0))),
          v |-> Tmp(c.reg)]

LValRef(e, symbol, c) ==
  IF e.kids /= <<>> THEN
    IF symbol.dimensions = <<>>
      THEN [c |-> Throw(c, "Indexing non-array variable"), v |-> None]
      ELSE IndexedRef(e, symbol, ArrayBase(symbol, c))
  ELSE IF symbol.dimensions /= <<>> THEN ArrayRef(symbol, c)
  ELSE ScalarRef(symbol, c)

\* LValAST::generate_ir
LValIR(e, c) ==
  IF ~Bound(c.ts, e.id)
    THEN [c |-> Throw(c, "Undefined variable"), v |-> None]
    ELSE LValRef(e, lookup_symbol(c.ts, e.id), c)

\* the loop of UnaryExpAST::generate_ir over func_r_params
ArgsLoop(args, i, c, vals) ==
  IF i > Len(args) \/ ~Ok(c) THEN [c |-> c, vals |-> vals]
  ELSE LET r == generate_ir(args[i], c)
       IN ArgsLoop(args, i + 1, r.c, Append(vals, r.v))

generate_ir(e, c) ==
  IF ~Ok(c) THEN [c |-> c, v |-> None]
  ELSE
  CASE e.t = "num" -> [c |-> c, v |-> Lit(e.v)]
    [] e.t = "list" -> [c |-> c, v |-> None]
    [] e.t = "lval" -> LValIR(e, c)
    [] e.t = "constexp" ->
         LET r == evaluate_const(e.kids[1], c.ts)
         IN IF r.ok THEN [c |-> c, v |-> Lit(r.v)]
            ELSE [c |-> Throw(c, r.msg), v |-> None]
    [] e.t = "un" ->
         LET operand == generate_ir(e.kids[1], c)
             result_reg == Tmp(operand.c.reg)
         IN [c |-> Emit(BumpReg(operand.c),
                        Line(UnOpName(e.op), result_reg, Lit(0), operand.v)),
             v |-> result_reg]
    [] e.t = "bin" ->
         LET lhs == generate_ir(e.kids[1], c)
             rhs == generate_ir(e.kids[2], lhs.c)
             result_reg == Tmp(rhs.c.reg)
         IN [c |-> Emit(BumpReg(rhs.c),
                        Line(OpName(e.op), result_reg, lhs.v, rhs.v)),
             v |-> result_reg]
    [] e.t = "call" ->
         LET ps == ArgsLoop(e.kids, 1, c, <<>>)
         IN IF ~Ok(ps.c) THEN [c |-> ps.c, v |-> None]
            ELSE IF ~Bound(c.ts, e.id)
              THEN [c |-> Throw(ps.c, "Undefined function"), v |-> None]
            ELSE LET func_symbol == lookup_symbol(c.ts, e.id)
                 IN IF func_symbol.kind /= "func"
                      THEN [c |-> Throw(ps.c, "is not a function"), v |-> None]
                    ELSE IF func_symbol.type /= "void"
                      THEN [c |-> Emit(BumpReg(ps.c),
                                       CallLine(Tmp(ps.c.reg),
                                                func_symbol.unique_name, ps.vals)),
                            v |-> Tmp(ps.c.reg)]
                    ELSE [c |-> Emit(ps.c, CallLine(None, func_symbol.unique_name,
                                                    ps.vals)),
                          v |-> None]
    [] e.t = "lor" ->
         ShortTail("lor", c.lorc,
           generate_ir(e.kids[2],
             LOrMid(c.lorc,
               generate_ir(e.kids[1], ShortHead("lor", c.lorc,
                                                [c EXCEPT !.lorc = @ + 1])))))
    [] e.t = "land" ->
         ShortTail("land", c.landc,
           generate_ir(e.kids[2],
             LAndMid(c.landc,
               generate_ir(e.kids[1], ShortHead("land", c.landc,
                                                [c EXCEPT !.landc = @ + 1])))))


(***************************************************************************)
(* Initializers.  An InitVal / ConstInitVal is one expression (kept as the *)
(* expression node itself) or a brace list of initializers.                *)
(***************************************************************************)
List(inits) == Node("list", 0, "", "", inits)
NoInit == Node("noinit", 0, "", "", <<>>)
\* the nullptr that flatten_initializer pushes as padding
Pad == Node("pad", 0, "", "", <<>>)

\* the stride of the brace list at `level` (counted from 0, as in the code):
\* sub_array_size / dims[level]
ListStride(dims, level) == CDiv(Product(dims, level + 1), dims[level + 1])

RECURSIVE PadSeq(_)
PadSeq(n) == IF n <= 0 THEN <<>> ELSE <<Pad>> \o PadSeq(n - 1)

\* flatten_initializer(init_node, dims, flat_exps, level, written_count):
\* flat_exps and written_count after the call, or the exception thrown
RECURSIVE flatten_initializer(_, _, _, _)
RECURSIVE FlattenItems(_, _, _, _, _)

FlattenItems(inits, i, dims, level, r) ==
  IF i > Len(inits) \/ r.err /= "" THEN r
  ELSE FlattenItems(inits, i + 1, dims, level,
                    flatten_initializer(inits[i], dims, level + 1, r))

flatten_initializer(init_node, dims, level, r) ==
  IF r.err /= "" THEN r
  ELSE IF init_node.t /= "list"
    THEN [r EXCEPT !.flat_exps = Append(@, init_node), !.written_count = @ + 1]
  ELSE IF init_node.kids = <<>> THEN r
  ELSE IF level >= Len(dims)
    THEN [r EXCEPT !.err = "Excessive nesting in initializer list"]
  ELSE IF dims[level + 1] = 0 \/ ListStride(dims, level) = 0
    THEN [r EXCEPT !.err = "division by zero"]
  ELSE
    LET stride == ListStride(dims, level)
    IN IF CMod(r.written_count, stride) /= 0
         THEN [r EXCEPT !.err = "Initializer list not aligned with array dimension boundaries."]
       ELSE
         LET after == FlattenItems(init_node.kids, 1, dims, level, r)
             remainder == CMod(after.written_count, stride)
             padding == IF remainder /= 0 THEN stride - remainder ELSE 0
         IN IF after.err /= "" THEN after
            ELSE [after EXCEPT
                    !.flat_exps = @ \o PadSeq(padding),
                    !.written_count = @ + padding]

Flatten0 == [flat_exps |-> <<>>, written_count |-> 0, err |-> ""]

\* a flat position that is never initialised
AlwaysPad(flat_exps, i) == Pad

\* the flat position i (from 0) of an array with an initializer, as both
\* emission loops read it: the expression, or Pad for a zero
FlatAt(flat_exps, i) ==
  IF i < Len(flat_exps) /\ flat_exps[i + 1] /= Pad THEN flat_exps[i + 1] ELSE Pad


(***************************************************************************)
(* Declarations.  A definition is [is_const, ident, dims, has_init, init]: *)
(* dims the dimension expressions, init an expression or a List.           *)
(***************************************************************************)
Def(is_const, ident, dims, has_init, init) ==
  [is_const |-> is_const, ident |-> ident, dims |-> dims,
   has_init |-> has_init, init |-> init]

GlobalLine(name, ty, n, zeroinit, values) ==
  [Line("global", Sym(name), None, None) EXCEPT
     !.ty = ty, !.n = n, !.l1 = IF zeroinit THEN "zeroinit" ELSE "",
     !.args = values]

\* what is on the stream when an exception leaves a line unfinished
PartialLine(name) == [Line("partial", Sym(name), None, None) EXCEPT !.name = name]

\* the loop over array_size_exps: every length, or the first failure
RECURSIVE EvalDims(_, _, _, _)
EvalDims(exps, i, ts, acc) ==
  IF i > Len(exps) THEN [ok |-> TRUE, dims |-> acc, msg |-> ""]
  ELSE LET r == evaluate_const(exps[i], ts)
       IN IF r.ok THEN EvalDims(exps, i + 1, ts, Append(acc, r.v))
          ELSE [ok |-> FALSE, dims |-> acc, msg |-> r.msg]

\* the literals of a global aggregate: positions 0 .. total_size - 1
RECURSIVE GlobalValues(_, _, _, _, _)
GlobalValues(flat_exps, i, total_size, ts, acc) ==
  IF i >= total_size THEN [ok |-> TRUE, values |-> acc, msg |-> ""]
  ELSE IF FlatAt(flat_exps, i) = Pad
    THEN GlobalValues(flat_exps, i + 1, total_size, ts, Append(acc, Lit(0)))
  ELSE LET r == evaluate_const(flat_exps[i + 1], ts)
       IN IF r.ok
            THEN GlobalValues(flat_exps, i + 1, total_size, ts, Append(acc, Lit(r.v)))
            ELSE [ok |-> FALSE, values |-> acc, msg |-> r.msg]

\* the getelemptr / store pairs of a local array with an initializer
RECURSIVE LocalInit(_, _, _, _, _)
LocalInit(flat_exps, i, total_size, unique_name, c) ==
  IF i >= total_size \/ ~Ok(c) THEN c
  ELSE
    LET result_reg == Tmp(c.reg)
        c1 == Emit(BumpReg(c),
                   Line("getelemptr", result_reg, Sym(unique_name), Lit(i)))
    IN IF FlatAt(flat_exps, i) = Pad
         THEN LocalInit(flat_exps, i + 1, total_size, unique_name,
                        Emit(c1, Store(Lit(0), result_reg)))
         ELSE LET init_val_exp == generate_ir(flat_exps[i + 1], c1)
              IN LocalInit(flat_exps, i + 1, total_size, unique_name,
                           Emit(init_val_exp.c, Store(init_val_exp.v, result_reg)))

\* the array branch shared by ConstDefAST::generate_ir and
\* VarDefAST::generate_ir
ArrayDefIR(d, c) ==
  LET ds == EvalDims(d.dims, 1, c.ts, <<>>)
      total_size == Product(ds.dims, 1)
      symbol == SymbolInfo(d.ident, 0, d.is_const, "var",
                           IF d.is_const THEN "*i32" ELSE "i32", ds.dims)
      added == add_symbol(c, symbol)
      fl == IF d.has_init
              THEN flatten_initializer(d.init, ds.dims, 0, Flatten0)
              ELSE Flatten0
      unique_name == added.symbol.unique_name
  IN IF ~ds.ok THEN Throw(c, ds.msg)
     ELSE IF fl.err /= "" THEN Throw(added.c, fl.err)
     ELSE IF is_global_scope(added.c.ts)
       THEN IF d.has_init
              THEN LET gv == GlobalValues(fl.flat_exps, 0, total_size, added.c.ts, <<>>)
                   IN IF gv.ok
                        THEN Emit(added.c, GlobalLine(unique_name, "arr", total_size,
                                                      FALSE, gv.values))
                        ELSE Throw(Emit(added.c, PartialLine(unique_name)), gv.msg)
              ELSE Emit(added.c, GlobalLine(unique_name, "arr", total_size, TRUE, <<>>))
     ELSE LET c1 == Emit(added.c, Alloc(Sym(unique_name), "arr", total_size))
          IN IF d.has_init
               THEN LocalInit(fl.flat_exps, 0, total_size, unique_name, c1)
               ELSE c1

\* the scalar branch of VarDefAST::generate_ir
VarDefIR(d, c) ==
  LET symbol == SymbolInfo(d.ident, 0, FALSE, "var", "i32", <<>>)
      added == add_symbol(c, symbol)
      unique_name == added.symbol.unique_name
  IN IF is_global_scope(added.c.ts)
       THEN IF d.has_init
              THEN LET val == evaluate_const(d.init, added.c.ts)
                   IN IF val.ok
                        THEN Emit(added.c, GlobalLine(unique_name, "i32", 0, FALSE,
                                                      <<Lit(val.v)>>))
                        ELSE Throw(Emit(added.c, PartialLine(unique_name)), val.msg)
              ELSE Emit(added.c, GlobalLine(unique_name, "i32", 0, TRUE, <<>>))
     ELSE LET c1 == Emit(added.c, Alloc(Sym(unique_name), "i32", 0))
          IN IF d.has_init
               THEN LET store_val == generate_ir(d.init, c1)
                    IN Emit(store_val.c, Store(store_val.v, Sym(unique_name)))
               ELSE c1

\* the scalar branch of ConstDefAST::generate_ir
ConstDefIR(d, c) ==
  LET val == evaluate_const(d.init, c.ts)
  IN IF ~val.ok THEN Throw(c, val.msg)
     ELSE add_symbol(c, SymbolInfo(d.ident, val.v, TRUE, "var", "i32", <<>>)).c

\* DeclAST::generate_ir for one definition
DeclIR(d, c) ==
  IF ~Ok(c) THEN c
  ELSE IF d.dims /= <<>> THEN ArrayDefIR(d, c)
  ELSE IF d.is_const THEN ConstDefIR(d, c)
  ELSE VarDefIR(d, c)


(***************************************************************************)
(* Statements that are lowered in one step.                                *)
(***************************************************************************)
\* the loop of the assignment over symbol->dimensions
RECURSIVE AssignIndexLoop(_, _, _, _)
\* one round of the index loop of ASSIGN_STMT: the index is always multiplied
\* by its stride, then added to the running offset
AssignIndexStep(index_val, stride, running) ==
  IndexAdd([c |-> Emit(BumpReg(index_val.c),
                       Line("mul", Tmp(index_val.c.reg), index_val.v, Lit(stride))),
            v |-> Tmp(index_val.c.reg)],
           running)

AssignIndexLoop(lval, dims, i, acc) ==
  IF i > Len(dims) \/ ~Ok(acc.c) THEN acc
  ELSE AssignIndexLoop(lval, dims, i + 1,
                       AssignIndexStep(generate_ir(lval.kids[i], acc.c),
                                       Stride(dims, i), acc.v))

AssignStore(store_v, p) ==
  IF Ok(p.c) THEN Emit(p.c, Store(store_v, p.v)) ELSE p.c

AssignArray(lval, symbol, store_v, base) ==
  AssignStore(store_v,
              ElemPtr(symbol, base.v,
                      AssignIndexLoop(lval, symbol.dimensions, 1,
                                      OffsetZero(base.c))))

AssignTo(lval, symbol, store_val) ==
  IF lval.kids = <<>>
    THEN Emit(store_val.c, Store(store_val.v, Sym(symbol.unique_name)))
  ELSE IF symbol.dimensions = <<>> THEN store_val.c
  ELSE IF Len(symbol.dimensions) /= Len(lval.kids)
    THEN Throw(store_val.c, "Incorrect number of dimensions for array")
  ELSE AssignArray(lval, symbol, store_val.v, ArrayBase(symbol, store_val.c))

AssignAfter(lval, store_val) ==
  IF ~Ok(store_val.c) \/ ~Bound(store_val.c.ts, lval.id) THEN store_val.c
  ELSE AssignTo(lval, lookup_symbol(store_val.c.ts, lval.id), store_val)

\* StmtAST::generate_ir, ASSIGN_STMT
AssignIR(lval, exp, c) == AssignAfter(lval, generate_ir(exp, c))

\* StmtAST::generate_ir, RETURN_STMT
ReturnIR(has_exp, exp, c) ==
  IF has_exp
    THEN LET ret_val == generate_ir(exp, c) IN Emit(ret_val.c, Ret(ret_val.v))
    ELSE Emit(c, Ret(None))

\* StmtAST::generate_ir, BREAK_STMT and CONTINUE_STMT
BreakIR(c) ==
  IF c.ls = <<>> THEN Throw(c, "No loop to get break label")
  ELSE Emit(c, Jump(c.ls[Len(c.ls)].break_label))

ContinueIR(c) ==
  IF c.ls = <<>> THEN Throw(c, "No loop to get continue label")
  ELSE Emit(c, Jump(c.ls[Len(c.ls)].continue_label))


(***************************************************************************)
(* CompUnitAST::generate_ir and FuncDefAST::generate_ir                    *)
(***************************************************************************)
LibFuncs ==
  <<[name |-> "getint", type |-> "i32"], [name |-> "getch", type |-> "i32"],
    [name |-> "getarray", type |-> "i32"], [name |-> "putint", type |-> "void"],
    [name |-> "putch", type |-> "void"], [name |-> "putarray", type |-> "void"],
    [name |-> "starttime", type |-> "void"], [name |-> "stoptime", type |-> "void"]>>

DeclLine(name, type) ==
  [Line("decl", Sym(name), None, None) EXCEPT !.name = name, !.ty = type]

RECURSIVE DeclLines(_)
DeclLines(i) ==
  IF i > Len(LibFuncs) THEN <<>>
  ELSE <<DeclLine(LibFuncs[i].name, LibFuncs[i].type)>> \o DeclLines(i + 1)

RECURSIVE AddLibFuncs(_, _)
AddLibFuncs(i, c) ==
  IF i > Len(LibFuncs) THEN c
  ELSE AddLibFuncs(i + 1,
         add_symbol(c, SymbolInfo(LibFuncs[i].name, 0, FALSE, "func",
                                  LibFuncs[i].type, <<>>)).c)

\* the head of CompUnitAST::generate_ir: the declarations and their symbols
Preamble(c) == AddLibFuncs(1, [c EXCEPT !.os = @ \o DeclLines(1)])

Param(ident, is_array, dims) ==
  [ident |-> ident, is_array |-> is_array, dims |-> dims]

FuncDef(ident, ftype, params) ==
  [ident |-> ident, ftype |-> ftype, params |-> params]

FunLine(name, params, ftype) ==
  [Line("fun", Sym(name), None, None) EXCEPT
     !.name = name, !.args = params, !.ty = ftype]

\* the reset at the head of FuncDefAST::generate_ir
ResetCounters(c) ==
  clear_symbol_counter([c EXCEPT !.reg = 0, !.ifc = 0, !.lorc = 0,
                                 !.landc = 0, !.whc = 0])

\* the loop over func_f_params: binds each parameter; yields the uniquified
\* names with their types
RECURSIVE ParamLoop(_, _, _, _)
ParamLoop(params, i, c, acc) ==
  IF i > Len(params) \/ ~Ok(c) THEN [c |-> c, params |-> acc]
  ELSE
    LET param == params[i]
        type == IF param.is_array THEN "*i32" ELSE "i32"
        ds == EvalDims(param.dims, 1, c.ts, <<>>)
        dims == IF param.is_array THEN <<0>> \o ds.dims ELSE <<>>
        added == add_symbol(c, SymbolInfo(param.ident, 0, FALSE, "var", type, dims))
    IN IF param.is_array /\ ~ds.ok
         THEN [c |-> Throw(Emit(c, PartialLine("fun")), ds.msg), params |-> acc]
         ELSE ParamLoop(params, i + 1, added.c,
                        Append(acc, [name |-> added.symbol.unique_name,
                                     type |-> type]))

RECURSIVE ParamAllocs(_, _, _)
ParamAllocs(ps, i, c) ==
  IF i > Len(ps) THEN c
  ELSE ParamAllocs(ps, i + 1,
         Emit(Emit(c, Alloc(Sym(ps[i].name), ps[i].type, 0)),
              Store(Arg(ps[i].name), Sym(ps[i].name))))

ParamOperands(ps) == [i \in 1..Len(ps) |-> Arg(ps[i].name)]

\* FuncDefAST::generate_ir up to its call of block->generate_ir
FuncHeadIR(f, c) ==
  LET c0 == ResetCounters(c)
      fs == add_symbol(c0, SymbolInfo(f.ident, 0, FALSE, "func", f.ftype, <<>>))
      c1 == enter_scope(fs.c)
      ps == ParamLoop(f.params, 1, c1, <<>>)
      c2 == Emit(ps.c, FunLine(fs.symbol.unique_name, ParamOperands(ps.params),
                               f.ftype))
      c3 == Emit(c2, Label("entry"))
  IN ParamAllocs(ps.params, 1, c3)

\* a default return that takes no account of the return type
ZeroRet(ftype) == Ret(Lit(0))

\* the default return of a function whose body is not terminated
DefaultRet(ftype) == IF ftype /= "void" THEN Ret(Lit(0)) ELSE Ret(None)

\* FuncDefAST::generate_ir after block->generate_ir returned
FuncTailIR(ftype, terminated, c) ==
  LET c1 == IF ~terminated THEN Emit(c, DefaultRet(ftype)) ELSE c
  IN exit_scope(Emit(c1, Line("end", None, None, None)))


(***************************************************************************)
(* Bounds of the programs that are lowered.                                *)
(***************************************************************************)
MaxItems == 2     \* top-level items of a compilation unit
MaxStmts == 5     \* statements and declarations of one function body
MaxDepth == 5     \* nested generate_ir calls of statements

(***************************************************************************)
(* The lowering as a state machine.  ctl holds the generate_ir calls of    *)
(* statements that have not returned: "func" (FuncDefAST, waiting for its  *)
(* body), "body" (the body block, not yet entered), "block" (BlockAST, in  *)
(* its loop over block_items), "if_then" / "if_else" / "while" (StmtAST,   *)
(* waiting for an arm or the loop body) and "stmt" (the arm or body that   *)
(* is lowered next).  ret is the is_terminated of the call that returned   *)
(* last and has not been read by its caller: "none", "open" or "term".     *)
(***************************************************************************)
Frame(k, id, flag, s) == [k |-> k, id |-> id, flag |-> flag, s |-> s]
Slot == Frame("stmt", 0, FALSE, "")

Top == ctl[Len(ctl)]
Pop(st) == SubSeq(st, 1, Len(st) - 1)

Running == err = "" /\ os /= <<>>

\* a statement can be lowered: as the arm that is due, or as the next item
\* of the block on top (the loop of BlockAST::generate_ir goes on only while
\* no item was terminated)
CanStart ==
  /\ Running
  /\ ctl /= <<>>
  /\ \/ Top.k = "stmt"
     \/ Top.k = "block" /\ ret /= "term"

\* the calls left once the statement that starts now has returned
After == IF Top.k = "stmt" THEN Pop(ctl) ELSE ctl

Budget == stmts < MaxStmts
Room == Len(ctl) < MaxDepth

TermFlag(b) == IF b THEN "term" ELSE "open"

InitLowering ==
  /\ table_stack = <<EmptyScope>>
  /\ symbol_counter = EmptyScope
  /\ loop_stack = <<>>
  /\ next_reg = 0
  /\ if_stmt_count = 0
  /\ lor_stmt_count = 0
  /\ land_stmt_count = 0
  /\ while_stmt_count = 0
  /\ os = <<>>
  /\ err = ""
  /\ ctl = <<>>
  /\ ret = "none"
  /\ items = 0
  /\ stmts = 0

Idle == [phase |-> "idle"]

CompUnitBegin ==
  /\ os = <<>> /\ err = ""
  /\ SetCx(Preamble(Cx))
  /\ UNCHANGED <<ctl, ret, items, stmts, be, ex>>

\* a global declaration as the next top-level item
GlobalDecl(d) ==
  /\ Running /\ ctl = <<>> /\ items < MaxItems
  /\ SetCx(DeclIR(d, Cx))
  /\ items' = items + 1
  /\ UNCHANGED <<ctl, ret, stmts, be, ex>>

FuncDefBegin(f) ==
  /\ Running /\ ctl = <<>> /\ items < MaxItems
  /\ SetCx(FuncHeadIR(f, Cx))
  /\ ctl' = <<Frame("func", 0, FALSE, f.ftype), Frame("body", 0, FALSE, "")>>
  /\ ret' = "none"
  /\ items' = items + 1
  /\ stmts' = 0
  /\ UNCHANGED <<be, ex>>

FuncDefEnd ==
  /\ Running /\ ctl /= <<>> /\ Top.k = "func" /\ ret /= "none"
  /\ SetCx(FuncTailIR(Top.s, ret = "term", Cx))
  /\ ctl' = Pop(ctl)
  /\ ret' = "none"
  /\ UNCHANGED <<items, stmts, be, ex>>

\* BlockAST::generate_ir is entered: for a function body, or a BLOCK_STMT
BlockEnter ==
  /\ Running /\ ctl /= <<>>
  /\ \/ Top.k = "body"
     \/ CanStart /\ Budget /\ Room
  /\ SetCx(enter_scope(Cx))
  /\ ctl' = Append(IF Top.k = "block" THEN ctl ELSE Pop(ctl),
                   Frame("block", 0, FALSE, ""))
  /\ ret' = "none"
  /\ stmts' = IF Top.k = "body" THEN stmts ELSE stmts + 1
  /\ UNCHANGED <<items, be, ex>>

\* the loop over block_items ends: an item was terminated, or none is left
BlockExit ==
  /\ Running /\ ctl /= <<>> /\ Top.k = "block"
  /\ SetCx(exit_scope(Cx))
  /\ ctl' = Pop(ctl)
  /\ ret' = TermFlag(ret = "term")
  /\ UNCHANGED <<items, stmts, be, ex>>

\* a declaration as the next item of the block
BlockDecl(d) ==
  /\ CanStart /\ Top.k = "block" /\ Budget
  /\ SetCx(DeclIR(d, Cx))
  /\ ret' = "open"
  /\ stmts' = stmts + 1
  /\ UNCHANGED <<ctl, items, be, ex>>

\* a statement that is lowered in one step returns
Leaf(c, terminated) ==
  /\ SetCx(c)
  /\ ctl' = After
  /\ ret' = TermFlag(terminated)
  /\ stmts' = stmts + 1
  /\ UNCHANGED <<items, be, ex>>

StmtReturn(has_exp, exp) ==
  /\ CanStart /\ Budget
  /\ Leaf(ReturnIR(has_exp, exp, Cx), TRUE)

StmtAssign(lval, exp) ==
  /\ CanStart /\ Budget
  /\ Leaf(AssignIR(lval, exp, Cx), FALSE)

StmtExp(exp) ==
  /\ CanStart /\ Budget
  /\ Leaf(generate_ir(exp, Cx).c, FALSE)

\* the empty statement; the one statement an arm can still be when the
\* function has MaxStmts statements
StmtEmpty ==
  /\ CanStart
  /\ Top.k = "stmt" \/ Budget
  /\ Leaf(Cx, FALSE)

StmtBreak ==
  /\ CanStart /\ Budget
  /\ Leaf(BreakIR(Cx), TRUE)

StmtContinue ==
  /\ CanStart /\ Budget
  /\ Leaf(ContinueIR(Cx), TRUE)


(***************************************************************************)
(* StmtAST::generate_ir, IF_STMT and WHILE_STMT                            *)
(***************************************************************************)
\* a lowering that writes the jump after every arm and body, terminated or not
JumpAlways(is_terminated) == TRUE

\* the jump to the end label after an arm, or to the entry after a loop body
JumpAfter(is_terminated) == ~is_terminated

\* an if statement that reports what its then arm reports
ThenTerminated(if_terminated, has_else, else_terminated) == if_terminated

\* bool terminated = if_res.is_terminated &&
\*                   (else_stmt ? else_res.is_terminated : false)
IfTerminated(if_terminated, has_else, else_terminated) ==
  if_terminated /\ (IF has_else THEN else_terminated ELSE FALSE)

\* up to the call of if_stmt->generate_ir
IfHeadIR(cond_exp, has_else, c) ==
  LET current_if_id == c.ifc
      cond_val == generate_ir(cond_exp, [c EXCEPT !.ifc = @ + 1])
      c1 == Emit(cond_val.c,
                 Br(cond_val.v, Suffix("then", current_if_id),
                    IF has_else THEN Suffix("else", current_if_id)
                                ELSE Suffix("if_end", current_if_id)))
  IN Emit(c1, Label(Suffix("then", current_if_id)))

\* after an arm returned: the jump to the end label
ArmTailIR(id, is_terminated, c) ==
  IF JumpAfter(is_terminated) THEN Emit(c, Jump(Suffix("if_end", id))) ELSE c

\* after the last arm: the end label
IfTailIR(id, terminated, c) ==
  IF ~terminated THEN Emit(c, Label(Suffix("if_end", id))) ELSE c

StmtIfBegin(cond_exp, has_else) ==
  /\ CanStart /\ Budget /\ Room
  /\ SetCx(IfHeadIR(cond_exp, has_else, Cx))
  /\ ctl' = After \o <<Frame("if_then", if_stmt_count, has_else, ""), Slot>>
  /\ ret' = "none"
  /\ stmts' = stmts + 1
  /\ UNCHANGED <<items, be, ex>>

\* if_stmt->generate_ir returned
IfThenDone ==
  /\ Running /\ ctl /= <<>> /\ Top.k = "if_then" /\ ret /= "none"
  /\ LET id == Top.id
         c1 == ArmTailIR(id, ret = "term", Cx)
     IN IF Top.flag
          THEN /\ SetCx(Emit(c1, Label(Suffix("else", id))))
               /\ ctl' = Pop(ctl) \o <<Frame("if_else", id, ret = "term", ""), Slot>>
               /\ ret' = "none"
          ELSE /\ SetCx(IfTailIR(id, IfTerminated(ret = "term", FALSE, FALSE), c1))
               /\ ctl' = Pop(ctl)
               /\ ret' = TermFlag(IfTerminated(ret = "term", FALSE, FALSE))
  /\ UNCHANGED <<items, stmts, be, ex>>

\* else_stmt->generate_ir returned
IfElseDone ==
  /\ Running /\ ctl /= <<>> /\ Top.k = "if_else" /\ ret /= "none"
  /\ LET id == Top.id
         terminated == IfTerminated(Top.flag, TRUE, ret = "term")
     IN /\ SetCx(IfTailIR(id, terminated, ArmTailIR(id, ret = "term", Cx)))
        /\ ret' = TermFlag(terminated)
  /\ ctl' = Pop(ctl)
  /\ UNCHANGED <<items, stmts, be, ex>>

\* up to the call of while_stmt->generate_ir
WhileHeadIR(cond_exp, c) ==
  LET id == c.whc
      entry_label == Suffix("while_entry", id)
      body_label == Suffix("while_body", id)
      endwhile_label == Suffix("while_end", id)
      c1 == Emit(Emit([c EXCEPT !.whc = @ + 1], Jump(entry_label)),
                 Label(entry_label))
      cond_val == generate_ir(cond_exp, c1)
      c2 == Emit(cond_val.c, Br(cond_val.v, body_label, endwhile_label))
  IN enter_loop(Emit(c2, Label(body_label)), entry_label, endwhile_label)

\* after while_stmt->generate_ir returned
WhileTailIR(id, is_terminated, c) ==
  LET c1 == exit_loop(c)
      c2 == IF JumpAfter(is_terminated)
              THEN Emit(c1, Jump(Suffix("while_entry", id)))
              ELSE c1
  IN Emit(c2, Label(Suffix("while_end", id)))

StmtWhileBegin(cond_exp) ==
  /\ CanStart /\ Budget /\ Room
  /\ SetCx(WhileHeadIR(cond_exp, Cx))
  /\ ctl' = After \o <<Frame("while", while_stmt_count, FALSE, ""), Slot>>
  /\ ret' = "none"
  /\ stmts' = stmts + 1
  /\ UNCHANGED <<items, be, ex>>

WhileDone ==
  /\ Running /\ ctl /= <<>> /\ Top.k = "while" /\ ret /= "none"
  /\ SetCx(WhileTailIR(Top.id, ret = "term", Cx))
  /\ ctl' = Pop(ctl)
  /\ ret' = "open"
  /\ UNCHANGED <<items, stmts, be, ex>>


(***************************************************************************)
(* Spec: compilation units of one function whose body nests if/else,       *)
(* while, break, continue, return, blocks and short-circuit conditions.    *)
(***************************************************************************)
X == LVal("x")
Y == LVal("y")

CFFuncs ==
  {FuncDef("f", "int", <<Param("x", FALSE, <<>>), Param("y", FALSE, <<>>)>>),
   FuncDef("g", "void", <<Param("x", FALSE, <<>>), Param("y", FALSE, <<>>)>>)}

CFIfConds == {X}
CFWhileConds == {LOr(X, LAnd(Y, X))}

Init ==
  /\ InitLowering
  /\ be = Idle /\ ex = Idle

Next ==
  \/ CompUnitBegin
  \/ \E f \in CFFuncs : items = 0 /\ FuncDefBegin(f)
  \/ FuncDefEnd
  \/ BlockEnter
  \/ BlockExit
  \/ StmtReturn(ctl[1].s = "int", Num(0))
  \/ StmtAssign(X, Num(1))
  \/ StmtEmpty
  \/ StmtBreak
  \/ StmtContinue
  \/ \E c \in CFIfConds, has_else \in BOOLEAN : StmtIfBegin(c, has_else)
  \/ IfThenDone
  \/ IfElseDone
  \/ \E c \in CFWhileConds : StmtWhileBegin(c)
  \/ WhileDone

Spec == Init /\ [][Next]_vars


(***************************************************************************)
(* The shape of the emitted IR.                                            *)
(***************************************************************************)
IsTerminator(line) == line.op \in {"ret", "jump", "br"}

\* a line that is an instruction of a basic block
IsInstruction(line) ==
  line.op \notin {"label", "fun", "end", "decl", "global", "partial"}

\* a line that closes the basic block before it
ClosesBlock(line) == line.op \in {"label", "end"}

HasLabel(l) == \E i \in 1..Len(os) : os[i] = Label(l)
HasJump(l) == \E i \in 1..Len(os) : os[i] = Jump(l)

\* the lowering of the whole compilation unit so far has returned
Lowered == err = "" /\ ctl = <<>> /\ \E i \in 1..Len(os) : os[i].op = "end"

\* C1: while lowering has not failed, every basic block written so far is a
\* label, then at least one instruction, and an instruction is a terminator
\* (ret, jump, br) exactly when it is the last of its block: a terminator is
\* followed by a label or the closing brace, nothing else is, and no label
\* is followed by a label or the closing brace.
C1_BlocksEndInOneTerminator ==
  err = "" =>
    \A i \in 1..(Len(os) - 1) :
      /\ IsInstruction(os[i]) => (IsTerminator(os[i]) <=> ClosesBlock(os[i + 1]))
      /\ os[i].op = "label" => IsInstruction(os[i + 1])
      /\ os[i].op = "fun" => os[i + 1] = Label("entry")
      /\ os[i + 1].op = "end" => IsTerminator(os[i])

\* a function is lowered whose loop, on a short-circuit condition, holds an
\* if/else with a break in one arm and a continue in the other
C1_Witness ==
  /\ Lowered
  /\ HasLabel("while_end_0") /\ HasLabel("else_0") /\ HasLabel("lor_end_0")
  /\ HasLabel("land_end_0")
  /\ HasJump("while_end_0") /\ HasJump("while_entry_0")
  /\ ~HasLabel("if_end_0")


(***************************************************************************)
(* SpecNames: compilation units of global variables and functions, the     *)
(* globals named like the names the lowering makes up for locals and       *)
(* result slots.                                                           *)
(***************************************************************************)
Scalar(ident) == Def(FALSE, ident, <<>>, FALSE, NoInit)

NamesGlobals == {Scalar("x"), Scalar("x_0"), Scalar("lor_res_0")}

NamesFuncs ==
  {FuncDef("main", "int", <<>>),
   FuncDef("f", "int", <<Param("x", FALSE, <<>>)>>)}

NextNames ==
  \/ CompUnitBegin
  \/ \E d \in NamesGlobals : GlobalDecl(d)
  \/ \E f \in NamesFuncs : FuncDefBegin(f)
  \/ FuncDefEnd
  \/ BlockEnter
  \/ BlockExit
  \/ BlockDecl(Scalar("x"))
  \/ StmtReturn(TRUE, LOr(Num(0), Num(1)))

SpecNames == Init /\ [][NextNames]_vars

\* a line that defines a global name: a library declaration, a global
\* allocation, a function
DefinesGlobal(line) == line.op \in {"decl", "global", "fun"}

\* no unit is being lowered: every item begun has returned
UnitLowered == err = "" /\ ctl = <<>> /\ os /= <<>>

\* C2: in the IR of a program whose lowering completed, no two lines that
\* define a global name (decl, global alloc, fun) define the same name, and
\* no local alloc defines the name of a global, wherever that global stands.
C2_NamesDoNotCollide ==
  UnitLowered =>
    \A i, j \in 1..Len(os) :
      /\ (i < j /\ DefinesGlobal(os[i]) /\ DefinesGlobal(os[j]))
           => os[i].dst.s /= os[j].dst.s
      /\ (os[i].op = "alloc" /\ DefinesGlobal(os[j]))
           => os[i].dst.s /= os[j].dst.s

\* the uniquifier meets a global that exists: a local x is declared after
\* the global x_0 and is named x_1
C2_Witness ==
  /\ UnitLowered
  /\ \E i, j \in 1..Len(os) :
       /\ i < j
       /\ os[i].op = "global" /\ os[i].dst.s = "x_0"
       /\ os[j].op = "alloc" /\ os[j].dst.s = "x_1"


(***************************************************************************)
(* SpecRedecl: compilation units that declare a name twice in one scope:   *)
(* globals, locals of every kind, parameters, and functions named like a   *)
(* global or a library procedure.                                          *)
(***************************************************************************)
RedeclLocals == {Scalar("x"), Def(TRUE, "x", <<>>, TRUE, Num(1)),
                 Def(FALSE, "x", <<Num(2)>>, FALSE, NoInit)}

RedeclFuncs ==
  {FuncDef("main", "int", <<>>),
   FuncDef("x", "int", <<Param("x", FALSE, <<>>)>>),
   FuncDef("getint", "int", <<Param("x", FALSE, <<>>), Param("x", FALSE, <<>>)>>)}

MaxRedeclStmts == 4     \* blocks and declarations of one function body

RedeclRoom == stmts < MaxRedeclStmts

NextRedecl ==
  \/ CompUnitBegin
  \/ GlobalDecl(Scalar("x"))
  \/ \E f \in RedeclFuncs : FuncDefBegin(f)
  \/ FuncDefEnd
  \/ RedeclRoom /\ BlockEnter
  \/ BlockExit
  \/ \E d \in RedeclLocals : RedeclRoom /\ BlockDecl(d)

SpecRedecl == Init /\ [][NextRedecl]_vars

\* name is bound in the scope that is current
BoundHere(name) == name \in DOMAIN table_stack[Len(table_stack)]

\* two parameters of the function have one name
RepeatsParam(f) ==
  \E i, j \in 1..Len(f.params) : i < j /\ f.params[i].ident = f.params[j].ident

\* lowering is aborted and the stream is as it was
Rejected == err' /= "" /\ os' = os

\* C10: a declaration of a name that is bound in the current scope aborts
\* lowering with an error and writes no IR: a global or local const,
\* variable or array, a function whose name is a global, a function with
\* two parameters of one name.
C10_RedeclarationAborts ==
  [][/\ (GlobalDecl(Scalar("x")) /\ BoundHere("x")) => Rejected
     /\ \A d \in RedeclLocals : (BlockDecl(d) /\ BoundHere(d.ident)) => Rejected
     /\ \A f \in RedeclFuncs :
          (FuncDefBegin(f) /\ (BoundHere(f.ident) \/ RepeatsParam(f))) => Rejected
    ]_vars

\* x is declared twice in one scope of a function and lowering goes on,
\* with a nameless alloc for the second declaration
C10_Witness ==
  /\ err = ""
  /\ \E i, j \in 1..Len(os) :
       /\ i < j
       /\ os[i].op = "alloc" /\ os[i].dst.s = "x_0"
       /\ os[j].op = "alloc" /\ os[j].dst.s = ""


(***************************************************************************)
(* SpecFold: the global `const int c = 2;` and a function f(n) whose body  *)
(* uses constant and runtime expressions as a return value, an initializer *)
(* of a local variable, the right-hand side of an assignment, a call       *)
(* argument and a condition.                                               *)
(***************************************************************************)
MaxExprStmts == 2     \* statements of a function body that lowers expressions

FoldExprs ==
  {Num(7), LVal("c"), LVal("n"), Un("-", Num(1)),
   Bin("+", Num(1), Bin("*", Num(2), Num(3))),
   Bin("-", LVal("c"), Num(1))}

ExprRoom == ctl /= <<>> /\ stmts < MaxExprStmts

NextFold ==
  \/ CompUnitBegin
  \/ items = 0 /\ GlobalDecl(Def(TRUE, "c", <<>>, TRUE, Num(2)))
  \/ items = 1 /\ FuncDefBegin(FuncDef("f", "int", <<Param("n", FALSE, <<>>)>>))
  \/ FuncDefEnd
  \/ ctl /= <<>> /\ Top.k = "body" /\ BlockEnter
  \/ BlockExit
  \/ \E e \in FoldExprs : ExprRoom /\ StmtReturn(TRUE, e)
  \/ \E e \in FoldExprs : ExprRoom /\ BlockDecl(Def(FALSE, "v", <<>>, TRUE, e))
  \/ \E e \in FoldExprs : ExprRoom /\ StmtAssign(LVal("n"), e)
  \/ \E e \in FoldExprs : ExprRoom /\ StmtExp(Call("putint", <<e>>))
  \/ \E e \in FoldExprs : ExprRoom /\ StmtIfBegin(e, FALSE)
  \/ ctl /= <<>> /\ Top.k = "stmt" /\ StmtEmpty
  \/ IfThenDone

SpecFold == Init /\ [][NextFold]_vars

\* e is built from integer literals and references to const scalars alone
RECURSIVE IsConstTree(_, _)
IsConstTree(e, ts) ==
  CASE e.t = "num" -> TRUE
    [] e.t = "lval" ->
         /\ e.kids = <<>>
         /\ Bound(ts, e.id)
         /\ lookup_symbol(ts, e.id).is_const
         /\ lookup_symbol(ts, e.id).dimensions = <<>>
    [] e.t \in {"un", "bin"} -> \A i \in 1..Len(e.kids) : IsConstTree(e.kids[i], ts)
    [] OTHER -> FALSE

\* the operators of e
RECURSIVE Operators(_)
Operators(e) ==
  IF e.t = "un" THEN 1 + Operators(e.kids[1])
  ELSE IF e.t = "bin" THEN 1 + Operators(e.kids[1]) + Operators(e.kids[2])
  ELSE 0

ArithOps ==
  {"add", "sub", "mul", "div", "mod", "eq", "ne", "lt", "gt", "le", "ge",
   "and", "or"}

\* the lines written by the step, and how many of them have an op of ops
Written == SubSeq(os', Len(os) + 1, Len(os'))
Count(lines, ops) == Cardinality({i \in 1..Len(lines) : lines[i].op \in ops})

\* the operand that the line of a position uses for its expression
UsedOperand(line) == IF line.op = "call" THEN line.args[1] ELSE line.a

\* the one line among lines that uses the expression of the position
UseLine(lines) ==
  lines[CHOOSE i \in 1..Len(lines) : lines[i].op \in {"ret", "store", "call", "br"}]

\* the step lowers expression e in one of the five positions
LowersInPosition(e) ==
  \/ StmtReturn(TRUE, e)
  \/ BlockDecl(Def(FALSE, "v", <<>>, TRUE, e))
  \/ StmtAssign(LVal("n"), e)
  \/ StmtExp(Call("putint", <<e>>))
  \/ StmtIfBegin(e, FALSE)

ConstExprs ==
  {Num(3), LVal("c"), LVal("n"), LVal("g"), Bin("+", LVal("n"), Num(1)),
   Idx("a", <<Num(0)>>), Call("getint", <<>>)}

ConstGlobals ==
  {Def(TRUE, "c", <<>>, TRUE, Num(2)), Scalar("g"),
   Def(FALSE, "a", <<Num(2)>>, FALSE, NoInit)}

ConstInit(e) == Def(TRUE, "k", <<>>, TRUE, e)
ArrayLength(e) == Def(FALSE, "b", <<e>>, FALSE, NoInit)
GlobalInit(e) == Def(FALSE, "h", <<>>, TRUE, e)

NextConst ==
  \/ CompUnitBegin
  \/ \E d \in ConstGlobals : GlobalDecl(d)
  \/ \E e \in ConstExprs : GlobalDecl(GlobalInit(e))
  \/ FuncDefBegin(FuncDef("f", "int", <<Param("n", FALSE, <<>>)>>))
  \/ FuncDefEnd
  \/ ctl /= <<>> /\ Top.k = "body" /\ BlockEnter
  \/ BlockExit
  \/ \E e \in ConstExprs : ExprRoom /\ BlockDecl(ConstInit(e))
  \/ \E e \in ConstExprs : ExprRoom /\ BlockDecl(ArrayLength(e))

SpecConst == Init /\ [][NextConst]_vars

\* e refers to a runtime variable, an array element or a function call
RECURSIVE MentionsRuntime(_, _)
MentionsRuntime(e, ts) ==
  CASE e.t = "num" -> FALSE
    [] e.t = "lval" ->
         e.kids /= <<>> \/ (Bound(ts, e.id) /\ ~lookup_symbol(ts, e.id).is_const)
    [] e.t = "call" -> TRUE
    [] OTHER -> \E i \in 1..Len(e.kids) : MentionsRuntime(e.kids[i], ts)

\* the step lowers a declaration that requires e to be a constant
RequiresConstant(e) ==
  \/ BlockDecl(ConstInit(e))
  \/ BlockDecl(ArrayLength(e))
  \/ GlobalDecl(GlobalInit(e))

\* C9: the constant evaluator yields no integer for an expression that
\* refers to a runtime variable, an array element or a function call, and
\* a const initializer, an array length or a global initializer that is
\* such an expression aborts lowering.
C9_RuntimeIsNoConstant ==
  [][\A e \in ConstExprs :
       (err = "" /\ os /= <<>> /\ MentionsRuntime(e, table_stack)) =>
          /\ ~evaluate_const(e, table_stack).ok
          /\ RequiresConstant(e) => err' /= ""
    ]_vars

\* a const initializer that calls a function has aborted lowering
C9_Witness == err = "Cannot evaluate function call in constant expression"


(***************************************************************************)
(* SpecFlat: one global array with a brace initializer of up to two        *)
(* levels of nesting.                                                      *)
(***************************************************************************)
FlatLeaves == {Num(1), Num(4)}

\* the sequences over S of length at most 2
UpTo2(S) == {<<>>} \cup {<<a>> : a \in S} \cup {<<a, b>> : a \in S, b \in S}

FlatItems == FlatLeaves \cup {List(s) : s \in UpTo2(FlatLeaves)}

FlatInits == {List(s) : s \in UpTo2(FlatItems)}

FlatDims == {<<Num(2), Num(3)>>, <<Num(3), Num(2)>>, <<Num(2), Num(2)>>,
             <<Num(4)>>, <<Num(2), Num(2), Num(2)>>}

FlatDefs == {Def(FALSE, "a", ds, TRUE, init) : ds \in FlatDims, init \in FlatInits}

NextFlat ==
  \/ CompUnitBegin
  \/ \E d \in FlatDefs : items = 0 /\ GlobalDecl(d)

SpecFlat == Init /\ [][NextFlat]_vars

\* the next multiple of size from cursor on
NextBoundary(cursor, size) ==
  IF cursor % size = 0 THEN cursor ELSE cursor + (size - (cursor % size))

RECURSIVE ZeroSeq(_)
ZeroSeq(n) == IF n <= 0 THEN <<>> ELSE <<Lit(0)>> \o ZeroSeq(n - 1)

\* The alignment rule: an expression takes the position of the cursor; a
\* brace list at nesting level `level` initialises a sub-array of
\* lens[level + 1] * ... * lens[Len(lens)] elements, must open at a multiple
\* of that size, and closes by zeros up to the next multiple of it.
\* [seq, ok]: the values placed, and whether every list opened on a boundary.
RECURSIVE AlignedFrom(_, _, _, _)
RECURSIVE AlignedItems(_, _, _, _, _)

AlignedItems(inits, i, lens, level, r) ==
  IF i > Len(inits) THEN r
  ELSE AlignedItems(inits, i + 1, lens, level,
                    AlignedFrom(inits[i], lens, level + 1, r))

AlignedFrom(init_node, lens, level, r) ==
  IF init_node.t /= "list" THEN [r EXCEPT !.seq = Append(@, Lit(init_node.v))]
  ELSE IF level >= Len(lens) \/ Len(r.seq) % Product(lens, level + 1) /= 0
    THEN [r EXCEPT !.ok = FALSE]
  ELSE LET after == AlignedItems(init_node.kids, 1, lens, level, r)
           to == NextBoundary(Len(after.seq), Product(lens, level + 1))
       IN [after EXCEPT !.seq = @ \o ZeroSeq(to - Len(@))]

Aligned(d) ==
  AlignedFrom(d.init, EvalDims(d.dims, 1, table_stack, <<>>).dims, 0,
              [seq |-> <<>>, ok |-> TRUE])

\* the line of the array that the step has written
ArrayLine == os'[Len(os')]

\* C6: the initializers of an array are placed by the alignment rule: each
\* nested brace list starts its sub-array and is closed by zeros up to the
\* end of that sub-array, so the values of the emitted aggregate are those
\* the rule places; for a[2][3] = {{1},{4}} they are 1,0,0,4,0,0.
C6_AlignmentRule ==
  [][\A d \in FlatDefs :
       (GlobalDecl(d) /\ err' = "" /\ Aligned(d).ok
          /\ Len(Aligned(d).seq) = ArrayLine.n) =>
            ArrayLine.args = Aligned(d).seq
    ]_vars

\* a[2][3] = {{1},{4}} is lowered, to the values 1,4,0,0,0,0
C6_Witness ==
  /\ err = ""
  /\ \E i \in 1..Len(os) :
       os[i] = GlobalLine("a", "arr", 6, FALSE,
                          <<Lit(1), Lit(4), Lit(0), Lit(0), Lit(0), Lit(0)>>)


(***************************************************************************)
(* The code generator (src/src/main.cpp).  It reads the IR of a function   *)
(* as the lines from its `fun` line to its closing brace, and writes       *)
(* assembly, one record per line: [op, rd, rs, rt, imm, sym].              *)
(***************************************************************************)
Asm(op, rd, rs, rt, imm, sym) ==
  [op |-> op, rd |-> rd, rs |-> rs, rt |-> rt, imm |-> imm, sym |-> sym]

\* the forms that are written
AsmLabel(l) == Asm("label", "", "", "", 0, l)
Li(rd, imm) == Asm("li", rd, "", "", imm, "")
Addi(rd, rs, imm) == Asm("addi", rd, rs, "", imm, "")
Mem(inst, data_reg, imm, base) == Asm(inst, data_reg, base, "", imm, "")
Op3(op, rd, rs, rt) == Asm(op, rd, rs, rt, 0, "")
Op2(op, rd, rs) == Asm(op, rd, rs, "", 0, "")
To(op, rs, l) == Asm(op, "", rs, "", 0, l)

\* the lines of the first function of the IR, from `fun` to the brace
FuncFirst == CHOOSE i \in 1..Len(os) : os[i].op = "fun" /\ \A j \in 1..(i - 1) : os[j].op /= "fun"
FuncLast == CHOOSE i \in FuncFirst..Len(os) :
              os[i].op = "end" /\ \A j \in FuncFirst..(i - 1) : os[j].op /= "end"
FuncLines == SubSeq(os, FuncFirst, FuncLast)

\* an instruction whose type is not unit
IsTyped(line) ==
  \/ line.op \in ArithOps \cup {"load", "getelemptr", "getptr"}
  \/ line.op = "call" /\ line.dst /= None

\* a size that takes every alloc for one word
WordSize(line) == 4

\* get_array_size of the type of an alloc
get_array_size(line) == IF line.ty = "arr" THEN line.n * 4 ELSE 4

Max(a, b) == IF a >= b THEN a ELSE b

\* the first loop of CalculateStackSize
RECURSIVE CallScan(_, _, _)
CallScan(lines, i, acc) ==
  IF i > Len(lines) THEN acc
  ELSE IF lines[i].op = "call"
    THEN CallScan(lines, i + 1,
                  [is_ra_saved |-> TRUE,
                   stack_param_num |-> Max(acc.stack_param_num,
                                           Len(lines[i].args) - 8)])
  ELSE CallScan(lines, i + 1, acc)

\* the bytes the second loop of CalculateStackSize gives an instruction
SlotSize(line) ==
  IF line.op = "alloc" THEN get_array_size(line)
  ELSE IF IsTyped(line) THEN 4 ELSE 0

\* stack_size of the second loop after the first n lines
RECURSIVE SlotsBefore(_, _)
SlotsBefore(lines, n) ==
  IF n = 0 THEN 0 ELSE SlotsBefore(lines, n - 1) + SlotSize(lines[n])

\* the second loop of CalculateStackSize: the offsets of value_info_map, by
\* the place of the instruction in the function, and the bytes taken
SlotScan(lines, stack_param_num) ==
  [offs |-> [i \in {j \in 1..Len(lines) :
                      lines[j].op = "alloc" \/ IsTyped(lines[j])} |->
               SlotsBefore(lines, i - 1) + stack_param_num * 4],
   stack_size |-> SlotsBefore(lines, Len(lines))]

\* a frame planner that does not round the frame up
FrameExact(bytes) == bytes

\* the last statement of CalculateStackSize
FrameRound(bytes) == CDiv(bytes + 15, 16) * 16

FramePlan(calls, slots) ==
  [stack_size |-> FrameRound(slots.stack_size
                             + BoolInt(calls.is_ra_saved) * 4
                             + calls.stack_param_num * 4),
   is_ra_saved |-> calls.is_ra_saved,
   offs |-> slots.offs]

CalculateStackSize(lines) ==
  FramePlan(CallScan(lines, 1, [is_ra_saved |-> FALSE, stack_param_num |-> 0]),
            SlotScan(lines, CallScan(lines, 1, [is_ra_saved |-> FALSE,
                                                stack_param_num |-> 0]).stack_param_num))


\* the instruction of the function that defines an operand, and the kind
\* tag of the value the operand names
DefLine(lines, v) ==
  CHOOSE i \in 2..Len(lines) : lines[i].dst = v /\ lines[i].op /= "store"

ValueKind(lines, v) ==
  IF v.k = "lit" THEN "integer"
  ELSE IF v.k = "arg" THEN "func_arg_ref"
  ELSE IF \E i \in 2..Len(lines) : lines[i].dst = v
    THEN lines[DefLine(lines, v)].op
  ELSE "global_alloc"

\* func_arg_ref.index
ArgIndex(lines, v) ==
  (CHOOSE i \in 1..Len(lines[1].args) :
     lines[1].args[i] = v /\ \A j \in 1..(i - 1) : lines[1].args[j] /= v) - 1

InRange(offset) == offset >= -2048 /\ offset <= 2047

\* an access that writes the offset into the instruction whatever it is
EmitDirect(inst, data_reg, offset, temp_reg) ==
  <<Mem(inst, data_reg, offset, "sp")>>

EmitSPRelativeAccess(inst, data_reg, offset, temp_reg) ==
  IF InRange(offset) THEN <<Mem(inst, data_reg, offset, "sp")>>
  ELSE <<Li(temp_reg, offset), Op3("add", temp_reg, "sp", temp_reg),
         Mem(inst, data_reg, 0, temp_reg)>>

\* a reader of parameters that takes the frame of the caller for its own
MoveArgCallerFrame(index, reg, st) ==
  IF index < 8 THEN <<Op2("mv", reg, "a" \o ToString(index))>>
  ELSE EmitSPRelativeAccess("lw", reg, (index - 8) * 4, "t2")

\* the FUNC_ARG_REF arm of Visit(value), as the two movers use it
MoveArg(index, reg, st) ==
  IF index < 8 THEN <<Op2("mv", reg, "a" \o ToString(index))>>
  ELSE EmitSPRelativeAccess("lw", reg, st.stack_size + (index - 8) * 4, "t2")

MoveValueToRegister(lines, val, reg, st) ==
  IF ValueKind(lines, val) = "integer" THEN <<Li(reg, val.n)>>
  ELSE IF ValueKind(lines, val) = "func_arg_ref"
    THEN MoveArg(ArgIndex(lines, val), reg, st)
  ELSE EmitSPRelativeAccess("lw", reg, st.offs[DefLine(lines, val)], "t2")

LoadValueToRegister(lines, val, reg, st) ==
  IF ValueKind(lines, val) \in {"integer", "func_arg_ref"}
    THEN MoveValueToRegister(lines, val, reg, st)
  ELSE IF ValueKind(lines, val) = "global_alloc"
    THEN <<To("la", reg, val.s), Mem("lw", reg, 0, reg)>>
  ELSE IF ValueKind(lines, val) \in {"getelemptr", "getptr"}
    THEN EmitSPRelativeAccess("lw", reg, st.offs[DefLine(lines, val)], "t2")
         \o <<Mem("lw", reg, 0, reg)>>
  ELSE EmitSPRelativeAccess("lw", reg, st.offs[DefLine(lines, val)], "t2")

SaveValueFromRegister(lines, val, reg, tmp, st) ==
  IF ValueKind(lines, val) = "global_alloc"
    THEN <<To("la", tmp, val.s), Mem("sw", reg, 0, tmp)>>
  ELSE IF ValueKind(lines, val) \in {"getelemptr", "getptr"}
    THEN EmitSPRelativeAccess("lw", tmp, st.offs[DefLine(lines, val)], "t2")
         \o <<Mem("sw", reg, 0, tmp)>>
  ELSE EmitSPRelativeAccess("sw", reg, st.offs[DefLine(lines, val)], tmp)

\* MoveValueFromRegister of the instruction at place i
MoveValueFromRegister(i, reg, st) ==
  EmitSPRelativeAccess("sw", reg, st.offs[i], "t2")

\* the switch on binary.op
BinaryAsm(op) ==
  CASE op = "add" -> <<Op3("add", "t0", "t0", "t1")>>
    [] op = "sub" -> <<Op3("sub", "t0", "t0", "t1")>>
    [] op = "mul" -> <<Op3("mul", "t0", "t0", "t1")>>
    [] op = "div" -> <<Op3("div", "t0", "t0", "t1")>>
    [] op = "mod" -> <<Op3("rem", "t0", "t0", "t1")>>
    [] op = "eq" -> <<Op3("xor", "t0", "t0", "t1"), Op2("seqz", "t0", "t0")>>
    [] op = "ne" -> <<Op3("xor", "t0", "t0", "t1"), Op2("snez", "t0", "t0")>>
    [] op = "gt" -> <<Op3("sgt", "t0", "t0", "t1")>>
    [] op = "lt" -> <<Op3("slt", "t0", "t0", "t1")>>
    [] op = "ge" -> <<Op3("slt", "t0", "t0", "t1"), Op2("seqz", "t0", "t0")>>
    [] op = "le" -> <<Op3("sgt", "t0", "t0", "t1"), Op2("seqz", "t0", "t0")>>
    [] op = "and" -> <<Op2("snez", "t0", "t0"), Op2("snez", "t1", "t1"),
                       Op3("and", "t0", "t0", "t1")>>
    [] op = "or" -> <<Op3("or", "t0", "t0", "t1"), Op2("snez", "t0", "t0")>>

\* the loop over call.args
RECURSIVE CallArgs(_, _, _, _)
CallArgs(lines, args, i, st) ==
  IF i > Len(args) THEN <<>>
  ELSE (IF i - 1 < 8
          THEN MoveValueToRegister(lines, args[i], "a" \o ToString(i - 1), st)
          ELSE MoveValueToRegister(lines, args[i], "t0", st)
               \o EmitSPRelativeAccess("sw", "t0", (i - 1 - 8) * 4, "t1"))
       \o CallArgs(lines, args, i + 1, st)

\* the address of the array a getelemptr indexes
ElemBase(lines, src, st) ==
  IF ValueKind(lines, src) = "global_alloc" THEN <<To("la", "t0", src.s)>>
  ELSE IF InRange(st.offs[DefLine(lines, src)])
    THEN <<Addi("t0", "sp", st.offs[DefLine(lines, src)])>>
  ELSE <<Li("t1", st.offs[DefLine(lines, src)]), Op3("add", "t0", "sp", "t1")>>

PtrBase(lines, src, st) ==
  IF ValueKind(lines, src) = "global_alloc" THEN <<To("la", "t0", src.s)>>
  ELSE MoveValueToRegister(lines, src, "t0", st)

\* the scaling of the index and the save of the pointer, of both arms
ScaleIndex(lines, i, st) ==
  MoveValueToRegister(lines, lines[i].b, "t1", st)
  \o <<Li("t2", 4), Op3("mul", "t1", "t1", "t2"), Op3("add", "t0", "t0", "t1")>>
  \o EmitSPRelativeAccess("sw", "t0", st.offs[i], "t1")

LocalLabel(st, l) == st.name \o "_" \o l

\* Visit(basic block) of a label line, Visit(value) of an instruction line
VisitValue(lines, i, st) ==
  CASE lines[i].op = "label" ->
         IF lines[i].name /= "entry"
           THEN <<AsmLabel(LocalLabel(st, lines[i].name))>> ELSE <<>>
    [] lines[i].op = "ret" ->
         (IF lines[i].a /= None
            THEN MoveValueToRegister(lines, lines[i].a, "a0", st) ELSE <<>>)
         \o <<To("j", "", LocalLabel(st, "end"))>>
    [] lines[i].op \in ArithOps ->
         MoveValueToRegister(lines, lines[i].a, "t0", st)
         \o MoveValueToRegister(lines, lines[i].b, "t1", st)
         \o BinaryAsm(lines[i].op)
         \o MoveValueFromRegister(i, "t0", st)
    [] lines[i].op = "load" ->
         LoadValueToRegister(lines, lines[i].a, "t0", st)
         \o MoveValueFromRegister(i, "t0", st)
    [] lines[i].op = "store" ->
         MoveValueToRegister(lines, lines[i].a, "t0", st)
         \o SaveValueFromRegister(lines, lines[i].b, "t0", "t1", st)
    [] lines[i].op = "alloc" -> <<>>
    [] lines[i].op = "br" ->
         MoveValueToRegister(lines, lines[i].a, "t0", st)
         \o <<To("bnez", "t0", LocalLabel(st, lines[i].l1)),
              To("j", "", LocalLabel(st, lines[i].l2))>>
    [] lines[i].op = "jump" -> <<To("j", "", LocalLabel(st, lines[i].l1))>>
    [] lines[i].op = "call" ->
         CallArgs(lines, lines[i].args, 1, st)
         \o <<To("call", "", lines[i].name)>>
         \o (IF lines[i].dst /= None
               THEN MoveValueFromRegister(i, "a0", st) ELSE <<>>)
    [] lines[i].op = "getelemptr" ->
         ElemBase(lines, lines[i].a, st) \o ScaleIndex(lines, i, st)
    [] lines[i].op = "getptr" ->
         PtrBase(lines, lines[i].a, st) \o ScaleIndex(lines, i, st)

\* the frame adjustment of the prologue (sign = -1) and the epilogue (1)
AdjustSp(stack_size, sign) ==
  IF stack_size > 0
    THEN IF stack_size <= 2047
           THEN <<Addi("sp", "sp", sign * stack_size)>>
           ELSE <<Li("t0", sign * stack_size), Op3("add", "sp", "sp", "t0")>>
    ELSE <<>>

RaAccess(inst, st) ==
  IF st.is_ra_saved
    THEN EmitSPRelativeAccess(inst, "ra", st.stack_size - 4, "t0") ELSE <<>>

Prologue(st) ==
  <<AsmLabel(st.name)>> \o AdjustSp(st.stack_size, -1) \o RaAccess("sw", st)

Epilogue(st) ==
  <<AsmLabel(LocalLabel(st, "end"))>> \o RaAccess("lw", st)
  \o AdjustSp(st.stack_size, 1) \o <<Op2("ret", "", "")>>

\* the state of the generator at the head of Visit(function)
Planned(lines, plan) ==
  [phase |-> "visit", pc |-> 2, name |-> lines[1].name,
   stack_size |-> plan.stack_size, is_ra_saved |-> plan.is_ra_saved,
   offs |-> plan.offs, asm |-> <<>>]

\* Visit(function) up to its visit of the blocks
VisitFunctionBegin ==
  /\ be = Idle
  /\ Lowered
  /\ be' = [Planned(FuncLines, CalculateStackSize(FuncLines)) EXCEPT
              !.asm = Prologue(Planned(FuncLines, CalculateStackSize(FuncLines)))]
  /\ UNCHANGED <<table_stack, symbol_counter, loop_stack, next_reg,
                 if_stmt_count, lor_stmt_count, land_stmt_count,
                 while_stmt_count, os, err, ctl, ret, items, stmts, ex>>

\* the visit of the next label or instruction
VisitNext ==
  /\ be.phase = "visit"
  /\ FuncLines[be.pc].op /= "end"
  /\ be' = [be EXCEPT !.pc = @ + 1,
                      !.asm = @ \o VisitValue(FuncLines, be.pc, be)]
  /\ UNCHANGED <<table_stack, symbol_counter, loop_stack, next_reg,
                 if_stmt_count, lor_stmt_count, land_stmt_count,
                 while_stmt_count, os, err, ctl, ret, items, stmts, ex>>

\* Visit(function) after its visit of the blocks
VisitFunctionEnd ==
  /\ be.phase = "visit"
  /\ FuncLines[be.pc].op = "end"
  /\ be' = [be EXCEPT !.phase = "done", !.asm = @ \o Epilogue(be)]
  /\ UNCHANGED <<table_stack, symbol_counter, loop_stack, next_reg,
                 if_stmt_count, lor_stmt_count, land_stmt_count,
                 while_stmt_count, os, err, ctl, ret, items, stmts, ex>>


(***************************************************************************)
(* SpecAsm: one function is lowered and then given to the code generator.  *)
(* The functions have no parameter or nine; the bodies declare scalars and *)
(* arrays of 600 elements, assign to them, call, and return.               *)
(***************************************************************************)
MaxAsmStmts == 3     \* statements of a function body given to the generator

NineParams == [i \in 1..9 |-> Param("p" \o ToString(i), FALSE, <<>>)]
NineArgs == [i \in 1..9 |-> Num(i)]

AsmFuncs == {FuncDef("main", "int", <<>>), FuncDef("g", "int", NineParams)}

AsmDecls ==
  {Scalar("x"),
   Def(FALSE, "a", <<Num(600)>>, FALSE, NoInit),
   Def(FALSE, "c", <<Num(600)>>, FALSE, NoInit)}

AsmResults ==
  {Num(0), LVal("x"), Idx("a", <<Num(1)>>), LVal("p9"), Call("g", NineArgs),
   Call("getint", <<>>)}

AsmTargets == {LVal("x"), Idx("c", <<Num(599)>>)}

AsmRoom == ctl /= <<>> /\ stmts < MaxAsmStmts

NextAsm ==
  \/ CompUnitBegin
  \/ \E f \in AsmFuncs : items = 0 /\ FuncDefBegin(f)
  \/ FuncDefEnd
  \/ ctl /= <<>> /\ Top.k = "body" /\ BlockEnter
  \/ BlockExit
  \/ \E d \in AsmDecls : AsmRoom /\ BlockDecl(d)
  \/ \E e \in AsmResults : AsmRoom /\ StmtReturn(TRUE, e)
  \/ \E lv \in AsmTargets : AsmRoom /\ StmtAssign(lv, Num(5))
  \/ VisitFunctionBegin
  \/ VisitNext
  \/ VisitFunctionEnd

SpecAsm == Init /\ [][NextAsm]_vars


\* the generator has planned the frame of the function
Emitting == be.phase \in {"visit", "done"}

\* the places of the assembly that write sp, and what each adds to it
SpWrites == {i \in 1..Len(be.asm) : be.asm[i].rd = "sp"}

SpDelta(i) ==
  IF be.asm[i].op = "addi" THEN be.asm[i].imm ELSE be.asm[i - 1].imm

\* the function has an alloc, an instruction with a value, or a call
NeedsFrame ==
  \E i \in 1..Len(FuncLines) :
    FuncLines[i].op = "alloc" \/ IsTyped(FuncLines[i]) \/ FuncLines[i].op = "call"

\* C7 as stated: the frame of every function for which assembly is emitted
\* is a positive multiple of 16, also when the function only returns.
C7_FramePositive ==
  Emitting => be.stack_size > 0 /\ be.stack_size % 16 = 0

\* C7, amended: the frame is a multiple of 16 that is zero exactly when the
\* function has no alloc, no instruction with a value and no call; a frame
\* of zero bytes leaves sp alone, any other frame is taken from sp once by
\* the prologue and given back once, in full, by the epilogue.
C7_FrameAligned ==
  Emitting =>
    /\ be.stack_size >= 0
    /\ be.stack_size % 16 = 0
    /\ be.stack_size = 0 <=> ~NeedsFrame
    /\ be.stack_size = 0 => SpWrites = {}
    /\ be.stack_size > 0 /\ be.phase = "visit" =>
         /\ Cardinality(SpWrites) = 1
         /\ \A i \in SpWrites : SpDelta(i) = -be.stack_size
    /\ be.stack_size > 0 /\ be.phase = "done" =>
         /\ Cardinality(SpWrites) = 2
         /\ \E i, j \in SpWrites :
              /\ i < j
              /\ SpDelta(i) = -be.stack_size
              /\ SpDelta(j) = be.stack_size
              /\ be.asm[j + 1].op = "ret"

\* `int main() { return 0; }` has gone through the generator
C7_Witness ==
  /\ be.phase = "done"
  /\ be.name = "main"
  /\ FuncLines = <<FunLine("main", <<>>, "int"), Label("entry"), Ret(Lit(0)),
                   Line("end", None, None, None)>>
  /\ be.stack_size = 0

\* C8: no addi, lw or sw of the assembly has an immediate outside
\* [-2048, 2047], whatever the frame size and the offsets are.
C8_ImmediatesFit ==
  Emitting =>
    \A i \in 1..Len(be.asm) :
      be.asm[i].op \in {"addi", "lw", "sw"} =>
        be.asm[i].imm >= -2048 /\ be.asm[i].imm <= 2047

\* a function whose frame, array base and spill offsets are all beyond 2047
\* has gone through the generator, which loaded each into a register
C8_Witness ==
  /\ be.phase = "done"
  /\ be.stack_size > 2047
  /\ \E i \in 1..Len(be.asm) :
       be.asm[i] = Op3("add", "sp", "sp", "t0") /\ be.asm[i - 1].imm < -2048
  /\ \E i \in 1..Len(be.asm) :
       be.asm[i] = Op3("add", "t0", "sp", "t1") /\ be.asm[i - 1].imm > 2047
  /\ \E i \in 1..Len(be.asm) :
       /\ be.asm[i] = Op3("add", "t2", "sp", "t2")
       /\ be.asm[i - 1].imm > 2047
       /\ be.asm[i + 1] = Mem("sw", "t0", 0, "t2")


(***************************************************************************)
(* The run of the assembly of a function, one IR instruction at a time:    *)
(* each step does what the instructions that Visit(value) writes for the   *)
(* line do.  Addresses are relative to sp after the prologue; every value  *)
(* of the function lives in its slot of the frame.                         *)
(***************************************************************************)
\* the words of memory: the frame, and the words of the caller above it
CallerWords == 8
Words(stack_size) == {4 * w : w \in 0..(stack_size \div 4 + CallerWords - 1)}

\* what MoveValueToRegister leaves in the register
Moved(lines, v, x) ==
  IF ValueKind(lines, v) = "integer" THEN v.n
  ELSE IF ValueKind(lines, v) = "func_arg_ref"
    THEN IF ArgIndex(lines, v) < 8
           THEN x.a[ArgIndex(lines, v) + 1]
           ELSE x.mem[x.stack_size + (ArgIndex(lines, v) - 8) * 4]
  ELSE x.mem[x.offs[DefLine(lines, v)]]

\* what LoadValueToRegister leaves in the register
Loaded(lines, v, x) ==
  IF ValueKind(lines, v) \in {"getelemptr", "getptr"}
    THEN x.mem[x.mem[x.offs[DefLine(lines, v)]]]
    ELSE Moved(lines, v, x)

\* the address SaveValueFromRegister writes
SavedAt(lines, v, x) ==
  IF ValueKind(lines, v) \in {"getelemptr", "getptr"}
    THEN x.mem[x.offs[DefLine(lines, v)]]
    ELSE x.offs[DefLine(lines, v)]

\* t0 after the instructions of the switch on binary.op
BinaryRun(op, l, r) ==
  CASE op = "add" -> l + r
    [] op = "sub" -> l - r
    [] op = "mul" -> l * r
    [] op = "div" -> IF r = 0 THEN -1 ELSE CDiv(l, r)
    [] op = "mod" -> IF r = 0 THEN l ELSE CMod(l, r)
    [] op = "eq" -> BoolInt(l = r)
    [] op = "ne" -> BoolInt(l /= r)
    [] op = "gt" -> BoolInt(l > r)
    [] op = "lt" -> BoolInt(l < r)
    [] op = "ge" -> BoolInt(~(l < r))
    [] op = "le" -> BoolInt(~(l > r))
    [] op = "and" -> BoolInt(l /= 0 /\ r /= 0)
    [] op = "or" -> BoolInt(l /= 0 \/ r /= 0)

\* t0 of the GET_ELEM_PTR and GET_PTR arms before it is saved
PointerRun(lines, i, x) ==
  (IF lines[i].op = "getelemptr" THEN x.offs[DefLine(lines, lines[i].a)]
   ELSE Moved(lines, lines[i].a, x))
  + Moved(lines, lines[i].b, x) * 4

LabelAt(lines, l) == CHOOSE i \in 1..Len(lines) : lines[i] = Label(l)

\* memory after the line at place i, which is no call and no terminator
MemRun(lines, i, x) ==
  CASE lines[i].op \in ArithOps ->
         [x.mem EXCEPT ![x.offs[i]] =
            BinaryRun(lines[i].op, Moved(lines, lines[i].a, x),
                      Moved(lines, lines[i].b, x))]
    [] lines[i].op = "load" ->
         [x.mem EXCEPT ![x.offs[i]] = Loaded(lines, lines[i].a, x)]
    [] lines[i].op = "store" ->
         [x.mem EXCEPT ![SavedAt(lines, lines[i].b, x)] =
            Moved(lines, lines[i].a, x)]
    [] lines[i].op \in {"getelemptr", "getptr"} ->
         [x.mem EXCEPT ![x.offs[i]] = PointerRun(lines, i, x)]
    [] OTHER -> x.mem

\* the place control goes to after the line at place i
NextPc(lines, i, x) ==
  CASE lines[i].op = "jump" -> LabelAt(lines, lines[i].l1)
    [] lines[i].op = "br" ->
         IF Moved(lines, lines[i].a, x) /= 0
           THEN LabelAt(lines, lines[i].l1) ELSE LabelAt(lines, lines[i].l2)
    [] OTHER -> i + 1

\* the a registers after the loop over call.args
RECURSIVE ArgsRun(_, _, _, _)
ArgsRun(lines, args, i, x) ==
  IF i > Len(args) THEN x
  ELSE ArgsRun(lines, args, i + 1,
               IF i - 1 < 8
                 THEN [x EXCEPT !.a[i] = Moved(lines, args[i], x)]
                 ELSE [x EXCEPT !.mem[(i - 1 - 8) * 4] = Moved(lines, args[i], x)])

Unchanged ==
  UNCHANGED <<table_stack, symbol_counter, loop_stack, next_reg,
              if_stmt_count, lor_stmt_count, land_stmt_count,
              while_stmt_count, os, err, ctl, ret, items, stmts, be>>

\* parameter r of the function is an array
IsPointerArg(lines, r) ==
  /\ r <= Len(lines[1].args)
  /\ \E j \in 2..Len(lines) :
       lines[j] = Alloc(Sym(lines[1].args[r].s), "*i32", 0)

\* the function is entered with its arguments in a0..a7 over zeroed memory;
\* the argument of an array parameter is the place of the array among the
\* words of the caller
RunBegin(args) ==
  /\ ex = Idle /\ be = Idle
  /\ Lowered
  /\ ex' = [phase |-> "run", pc |-> 2,
            a |-> [r \in 1..8 |->
                     IF r > Len(args) THEN 0
                     ELSE IF IsPointerArg(FuncLines, r)
                       THEN CalculateStackSize(FuncLines).stack_size + 4 * args[r]
                     ELSE args[r]],
            stack_size |-> CalculateStackSize(FuncLines).stack_size,
            offs |-> CalculateStackSize(FuncLines).offs,
            mem |-> [w \in Words(CalculateStackSize(FuncLines).stack_size) |-> 0],
            trace |-> <<>>, calls |-> <<>>]
  /\ Unchanged

\* a label, an alloc, or an instruction that is no call and no return
RunStep ==
  /\ ex.phase = "run"
  /\ FuncLines[ex.pc].op \notin {"call", "ret", "end"}
  /\ ex' = [ex EXCEPT !.pc = NextPc(FuncLines, ex.pc, ex),
                      !.mem = MemRun(FuncLines, ex.pc, ex),
                      !.trace = Append(@, ex.pc)]
  /\ Unchanged

\* a call: the callee is entered with the arguments and returns v in a0
Called(x, name, pc) ==
  [x EXCEPT !.pc = pc + 1, !.trace = Append(@, pc), !.calls = Append(@, name)]

RunCall(v) ==
  /\ ex.phase = "run"
  /\ FuncLines[ex.pc].op = "call"
  /\ ex' = IF FuncLines[ex.pc].dst /= None
             THEN [Called(ArgsRun(FuncLines, FuncLines[ex.pc].args, 1, ex),
                          FuncLines[ex.pc].name, ex.pc)
                     EXCEPT !.a[1] = v, !.mem[ex.offs[ex.pc]] = v]
             ELSE [Called(ArgsRun(FuncLines, FuncLines[ex.pc].args, 1, ex),
                          FuncLines[ex.pc].name, ex.pc)
                     EXCEPT !.a[1] = v]
  /\ Unchanged

\* a return: the value goes to a0 and control to the epilogue
RunRet ==
  /\ ex.phase = "run"
  /\ FuncLines[ex.pc].op = "ret"
  /\ ex' = [ex EXCEPT !.phase = "done", !.trace = Append(@, ex.pc),
                      !.a[1] = IF FuncLines[ex.pc].a /= None
                                 THEN Moved(FuncLines, FuncLines[ex.pc].a, ex)
                                 ELSE @]
  /\ Unchanged

(***************************************************************************)
(* SpecRun: a function over an array of three dimensions, an array of two  *)
(* or an array parameter is lowered and run on arguments 0 and 1.  Its     *)
(* statements index the arrays with the parameters, as a value and as the  *)
(* destination of an assignment.                                           *)
(***************************************************************************)
MaxRunStmts == 3     \* statements of a function body that is run

IntParam(ident) == Param(ident, FALSE, <<>>)

RunFuncs ==
  {FuncDef("f", "int", <<IntParam("i"), IntParam("j"), IntParam("k")>>),
   FuncDef("h", "int", <<Param("p", TRUE, <<Num(3)>>), IntParam("i"),
                         IntParam("j")>>)}

RunDecls ==
  {Def(FALSE, "a", <<Num(2), Num(3), Num(2)>>, FALSE, NoInit),
   Def(FALSE, "m", <<Num(3), Num(2)>>, FALSE, NoInit)}

RunElems ==
  {Idx("a", <<LVal("i"), LVal("j"), LVal("k")>>),
   Idx("m", <<LVal("i"), LVal("j")>>),
   Idx("p", <<LVal("i"), LVal("j")>>)}

RunRoom == ctl /= <<>> /\ stmts < MaxRunStmts

NextRun ==
  \/ CompUnitBegin
  \/ \E f \in RunFuncs : items = 0 /\ FuncDefBegin(f)
  \/ FuncDefEnd
  \/ ctl /= <<>> /\ Top.k = "body" /\ BlockEnter
  \/ BlockExit
  \/ \E d \in RunDecls : RunRoom /\ BlockDecl(d)
  \/ \E e \in RunElems : RunRoom /\ StmtReturn(TRUE, e)
  \/ \E lv \in RunElems : RunRoom /\ StmtAssign(lv, Num(7))
  \/ \E args \in [1..3 -> 0..1] : RunBegin(args)
  \/ RunStep
  \/ RunRet

SpecRun == Init /\ [][NextRun]_vars

(***************************************************************************)
(* SpecShort: a function of two parameters that evaluates || and && whose  *)
(* right operand calls a library function is lowered and run on arguments  *)
(* 0 and 1.                                                                *)
(***************************************************************************)
RunShorts ==
  {LOr(LVal("i"), Call("getint", <<>>)),
   LAnd(LVal("i"), Call("getint", <<>>)),
   LOr(LVal("i"), LAnd(LVal("j"), Call("getint", <<>>))),
   LAnd(LOr(LVal("i"), LVal("j")), Call("getint", <<>>)),
   LOr(LAnd(LVal("i"), Call("getint", <<>>)), Call("getch", <<>>))}

NextShort ==
  \/ CompUnitBegin
  \/ items = 0 /\ FuncDefBegin(FuncDef("f", "int", <<IntParam("i"), IntParam("j")>>))
  \/ FuncDefEnd
  \/ ctl /= <<>> /\ Top.k = "body" /\ BlockEnter
  \/ BlockExit
  \/ \E e \in RunShorts : RunRoom /\ StmtReturn(TRUE, e)
  \/ RunRoom /\ StmtAssign(LVal("j"), LOr(LVal("j"), Call("getint", <<>>)))
  \/ RunRoom /\ StmtAssign(LVal("i"), LAnd(LVal("j"), Call("getint", <<>>)))
  \/ \E args \in [1..2 -> 0..1] : RunBegin(args)
  \/ RunStep
  \/ \E v \in {0, 2} : RunCall(v)
  \/ RunRet

SpecShort == Init /\ [][NextShort]_vars


\* the line the run has just done
Ran == ex.trace[Len(ex.trace)]

\* the value a variable of the function holds now
Holds(unique_name) == ex.mem[ex.offs[DefLine(FuncLines, Sym(unique_name))]]

\* the row-major flat index: the sum over m of idx[m] times the product of
\* the lengths after m
RECURSIVE LengthsAfter(_, _)
LengthsAfter(dims, m) ==
  IF m >= Len(dims) THEN 1 ELSE dims[m + 1] * LengthsAfter(dims, m + 1)

RECURSIVE RowMajor(_, _, _)
RowMajor(idx, dims, m) ==
  IF m > Len(idx) THEN 0
  ELSE idx[m] * LengthsAfter(dims, m) + RowMajor(idx, dims, m + 1)

\* the line just run passed `index` to getelemptr or getptr and left the
\* pointer base + 4 * index in its slot
PointsAt(base, index) ==
  /\ Moved(FuncLines, FuncLines[Ran].b, ex) = index
  /\ ex.mem[ex.offs[Ran]] = base + 4 * index

\* C5: a fully indexed access with indices i, j (, k), as a value or as the
\* destination of an assignment, passes the row-major flat index to
\* getelemptr / getptr, and the pointer computed is 4 * that index bytes
\* from the array base; the elided first length of an array parameter is
\* in no stride.
C5_RowMajorOffset ==
  ex.phase = "run" /\ ex.trace /= <<>> =>
    /\ FuncLines[Ran].op = "getelemptr" /\ FuncLines[Ran].a = Sym("a_0") =>
         PointsAt(ex.offs[DefLine(FuncLines, Sym("a_0"))],
                  (Holds("i_0") * 3 + Holds("j_0")) * 2 + Holds("k_0"))
    /\ FuncLines[Ran].op = "getelemptr" /\ FuncLines[Ran].a = Sym("m_0") =>
         PointsAt(ex.offs[DefLine(FuncLines, Sym("m_0"))],
                  RowMajor(<<Holds("i_0"), Holds("j_0")>>, <<3, 2>>, 1))
    /\ FuncLines[Ran].op = "getelemptr" /\ FuncLines[Ran].a = Sym("a_0") =>
         PointsAt(ex.offs[DefLine(FuncLines, Sym("a_0"))],
                  RowMajor(<<Holds("i_0"), Holds("j_0"), Holds("k_0")>>,
                           <<2, 3, 2>>, 1))
    /\ FuncLines[Ran].op = "getptr" =>
         \A d1 \in 0..3 :
           PointsAt(Holds("p_0"),
                    RowMajor(<<Holds("i_0"), Holds("j_0")>>, <<d1, 3>>, 1))

\* a[1][1][1] = 7 was run and then a[1][1][1] was returned: the 7 is in
\* a0 and in the word 4 * 9 bytes from the base of a
C5_Witness ==
  /\ ex.phase = "done"
  /\ FuncLines[1].name = "f"
  /\ \E q \in 1..Len(FuncLines) : FuncLines[q] = Alloc(Sym("a_0"), "arr", 12)
  /\ Holds("i_0") = 1 /\ Holds("j_0") = 1 /\ Holds("k_0") = 1
  /\ ex.a[1] = 7
  /\ ex.mem[ex.offs[DefLine(FuncLines, Sym("a_0"))] + 4 * 9] = 7
  /\ Cardinality({q \in 1..Len(FuncLines) : FuncLines[q].op = "getelemptr"}) = 2


\* the lines the run has done
Done == {ex.trace[t] : t \in 1..Len(ex.trace)}

\* line q is the branch of the || or && (kind lor, land) numbered n
ShortBranch(lines, q, kind, n) ==
  /\ lines[q].op = "br"
  /\ {lines[q].l1, lines[q].l2}
       = {Suffix(kind \o "_eval_rhs", n), Suffix(kind \o "_end", n)}

\* the left operand, booleanised, decides alone: true for ||, false for &&
ShortCut(kind, lhs_bool) ==
  IF kind = "lor" THEN lhs_bool /= 0 ELSE lhs_bool = 0

\* the lines from the label of the right operand up to the end label
RhsLines(lines, kind, n) ==
  LabelAt(lines, Suffix(kind \o "_eval_rhs", n))
    ..(LabelAt(lines, Suffix(kind \o "_end", n)) - 1)

\* the load that opens the end block
EndLoad(lines, kind, n) == LabelAt(lines, Suffix(kind \o "_end", n)) + 1

\* the left operand: what the line that booleanises it compares with 0
LeftOf(lines, q) == lines[DefLine(lines, lines[q].a)].b

\* the short-cut of the branch at q was taken: nothing of the right operand
\* has run, and the end block loads the booleanised left operand
Skipped(lines, q, kind, n) ==
  /\ Done \cap RhsLines(lines, kind, n) = {}
  /\ Moved(lines, lines[q].a, ex) = BoolInt(Moved(lines, LeftOf(lines, q), ex) /= 0)
  /\ EndLoad(lines, kind, n) \in Done =>
       /\ lines[EndLoad(lines, kind, n)].op = "load"
       /\ ex.mem[ex.offs[EndLoad(lines, kind, n)]]
            = BoolInt(Moved(lines, LeftOf(lines, q), ex) /= 0)

\* the branches of the function that have run
RanBranches(lines) == {q \in Done : lines[q].op = "br"}

ShortCutsSkip(lines) ==
  \A q \in RanBranches(lines) : \A kind \in {"lor", "land"} :
    \A n \in 0..(Cardinality({t \in 1..Len(lines) : lines[t].op = "br"}) - 1) :
      ShortBranch(lines, q, kind, n)
      /\ ShortCut(kind, Moved(lines, LeftOf(lines, q), ex))
      => Skipped(lines, q, kind, n)

\* C3: when the branch of an a || b or a && b has run and the short-cut is
\* taken (a non-zero for ||, zero for &&), no line from the label of the
\* right operand up to the end label runs, so no instruction of b does, and
\* the value the end block loads is the booleanised a.
C3_ShortCutSkipsRhs ==
  ex.phase \in {"run", "done"} => ShortCutsSkip(FuncLines)

\* `j = j || getint(); return i && getint();` has run on i = 0, j = 1: both
\* short-cuts were taken, no call was made and 0 is returned
C3_Witness ==
  /\ ex.phase = "done"
  /\ ex.calls = <<>>
  /\ Cardinality({q \in 1..Len(FuncLines) : FuncLines[q].op = "call"}) = 2
  /\ \E q \in Done :
       /\ ShortBranch(FuncLines, q, "lor", 0)
       /\ Moved(FuncLines, FuncLines[q].a, ex) = 1
  /\ \E q \in Done :
       /\ ShortBranch(FuncLines, q, "land", 0)
       /\ Moved(FuncLines, FuncLines[q].a, ex) = 0
  /\ EndLoad(FuncLines, "lor", 0) \in Done
  /\ EndLoad(FuncLines, "land", 0) \in Done
  /\ ex.a[1] = 0


(***************************************************************************)
(* SpecLVal: a function f() whose body declares the scalar x and the array *)
(* m[2][2] and then reads and assigns bound and unbound identifiers, with  *)
(* no index, with as many indices as dimensions, with fewer and with more. *)
(***************************************************************************)
MaxLValStmts == 3     \* declarations and statements of the body

LValDecls == {Scalar("x"), Def(FALSE, "m", <<Num(2), Num(2)>>, FALSE, NoInit)}

\* the destinations of an assignment, also read as rvalues
LValTargets ==
  {LVal("x"), LVal("y"), Idx("x", <<Num(0)>>), Idx("y", <<Num(0)>>),
   Idx("m", <<Num(1)>>), Idx("m", <<Num(1), Num(1)>>),
   Idx("m", <<Num(1), Num(1), Num(1)>>)}

LValCalls == {Call("getint", <<>>), Call("g", <<>>)}

LValRoom == ctl /= <<>> /\ stmts < MaxLValStmts

NextLVal ==
  \/ CompUnitBegin
  \/ items = 0 /\ FuncDefBegin(FuncDef("f", "int", <<>>))
  \/ FuncDefEnd
  \/ ctl /= <<>> /\ Top.k = "body" /\ BlockEnter
  \/ BlockExit
  \/ \E d \in LValDecls : LValRoom /\ BlockDecl(d)
  \/ \E l \in LValTargets : LValRoom /\ StmtAssign(l, Num(1))
  \/ \E e \in LValTargets \cup LValCalls : LValRoom /\ StmtReturn(TRUE, e)

SpecLVal == Init /\ [][NextLVal]_vars

\* the step lowers a use of identifier id: as the destination of an
\* assignment, as an rvalue, or as a call target
UsesIdent(id) ==
  \/ \E l \in LValTargets : l.id = id /\ StmtAssign(l, Num(1))
  \/ \E e \in LValTargets \cup LValCalls : e.id = id /\ StmtReturn(TRUE, e)

\* C11: when a statement uses an identifier that no enclosing scope binds, as
\* an rvalue, as the destination of an assignment or as a call target,
\* lowering aborts with an error; the statement is never silently dropped.
C11_UnboundAborts ==
  [][\A id \in {"x", "y", "m", "g", "getint"} :
       (err = "" /\ ~Bound(table_stack, id) /\ UsesIdent(id)) => err' /= ""
    ]_vars

\* lowering was aborted by a read of an unbound variable
C11_Witness == err = "Undefined variable" /\ ctl /= <<>>

\* the indices k of an LVal and the dimensions n of the symbol it names
Indices(l) == Len(l.kids)
Dimensions(l) == Len(lookup_symbol(table_stack, l.id).dimensions)

\* the step reads l as an rvalue, or assigns to it
ReadsLVal(l) == StmtReturn(TRUE, l)
AssignsLVal(l) == StmtAssign(l, Num(1))

\* C12: an LVal with k >= 1 indices on a symbol of n dimensions aborts
\* lowering when k > n, read or assigned, and when it is assigned with k < n;
\* no load and no store is written and the statement is not skipped.
C12_DimensionMismatchAborts ==
  [][\A l \in LValTargets :
       (/\ err = "" /\ Bound(table_stack, l.id) /\ Indices(l) >= 1
        /\ \/ Indices(l) > Dimensions(l) /\ (ReadsLVal(l) \/ AssignsLVal(l))
           \/ Indices(l) < Dimensions(l) /\ AssignsLVal(l))
       => /\ err' /= ""
          /\ Count(Written, {"load", "store"}) = 0
    ]_vars

\* lowering was aborted by an assignment to m[1], or to m[1][1][1]
C12_Witness == err = "Incorrect number of dimensions for array" /\ ctl /= <<>>


(***************************************************************************)
(* break and continue, under Spec.  The while statements that enclose the  *)
(* statement lowered next are the "while" frames of ctl, innermost last.   *)
(***************************************************************************)
EnclosingWhiles == {i \in 1..Len(ctl) : ctl[i].k = "while"}

InLoop == EnclosingWhiles /= {}

InnermostWhile ==
  ctl[CHOOSE i \in EnclosingWhiles : \A j \in EnclosingWhiles : j <= i].id

\* the step writes the one jump to label l and reports terminated
JumpsTo(l) == err' = "" /\ Written = <<Jump(l)>> /\ ret' = "term"

\* C13: a break is lowered to a jump to the end label, a continue to a jump
\* to the entry label, of the innermost while statement that encloses it, a
\* loop that was lowered inside that while no longer counting; both report
\* terminated; with no enclosing while lowering is aborted with an error.
C13_LoopJumps ==
  [][/\ (err = "" /\ StmtBreak) =>
          IF InLoop THEN JumpsTo(Suffix("while_end", InnermostWhile))
          ELSE Rejected
     /\ (err = "" /\ StmtContinue) =>
          IF InLoop THEN JumpsTo(Suffix("while_entry", InnermostWhile))
          ELSE Rejected
    ]_vars

\* a break of the outer loop was lowered after the loop nested in its body
C13_Witness ==
  /\ err = ""
  /\ \E i, j \in 1..Len(os) :
       /\ i < j
       /\ os[i] = Label("while_end_1")
       /\ os[j] = Jump("while_end_0")
       /\ \A k \in 1..j : os[k] /= Label("while_end_0")


(***************************************************************************)
(* The opening of a nested brace list, under SpecFlat.                     *)
(***************************************************************************)
Misaligned == "Initializer list not aligned with array dimension boundaries."

\* written_count when item i of the outermost list of d is reached
CursorAt(d, i) ==
  FlattenItems(SubSeq(d.init.kids, 1, i - 1), 1,
               EvalDims(d.dims, 1, table_stack, <<>>).dims, 0, Flatten0)

\* the elements of the sub-array that a brace list nested once initialises
RowSize(d) == Product(EvalDims(d.dims, 1, table_stack, <<>>).dims, 2)

\* item i of the outermost list of d is a brace list with items, for a
\* sub-array, and is reached with the cursor off the boundaries of RowSize
OpensOffBoundary(d, i) ==
  /\ Len(d.dims) >= 2
  /\ d.init.kids[i].t = "list" /\ d.init.kids[i].kids /= <<>>
  /\ CursorAt(d, i).err = ""
  /\ CursorAt(d, i).written_count % RowSize(d) /= 0

\* C14: when a nested brace list is entered while the write cursor is not a
\* multiple of the size of the sub-array the list initialises, the
\* declaration is rejected with the misalignment error; for a[2][3] the
\* initializer {1, {2}} is rejected.
C14_OffBoundaryRejected ==
  [][\A d \in FlatDefs :
       (GlobalDecl(d) /\ \E i \in 1..Len(d.init.kids) : OpensOffBoundary(d, i))
         => err' = Misaligned
    ]_vars

\* a declaration was rejected with the misalignment error
C14_Witness == err = Misaligned /\ os /= <<>>


(***************************************************************************)
(* The driver (main of src/src/main.cpp).  The output file is opened       *)
(* before lowering.  With -koopa the AST is written straight to it; with   *)
(* -riscv the AST is written to a string and the file receives what the    *)
(* code generator writes.  No exception is caught, so an error ends the    *)
(* process where it is raised and the file keeps what was flushed.         *)
(***************************************************************************)
Modes == {"-koopa", "-riscv"}

\* what of the stream has reached its file: every line ends in std::endl,
\* which flushes, but the library declarations are one string with no flush
\* and a line that an exception left unfinished has none either
Flushed(lines) ==
  LET ended == {i \in 1..Len(lines) : lines[i].op \notin {"decl", "partial"}}
  IN IF ended = {} THEN <<>>
     ELSE SubSeq(lines, 1, CHOOSE i \in ended : \A j \in ended : j <= i)

\* the contents of the output file
OutputFile(mode) ==
  IF mode = "-koopa" THEN Flushed(os)
  ELSE IF be.phase \in {"visit", "done"} THEN be.asm
  ELSE <<>>

\* C15: once lowering has raised an error the output file holds no part of
\* the IR or of the assembly, in -koopa mode and in -riscv mode.
C15_NoPartialOutput ==
  err /= "" => \A mode \in Modes : OutputFile(mode) = <<>>

\* lowering failed inside a function: in -riscv mode the file is empty, the
\* IR written before the error is in the string only
C15_Witness ==
  /\ err /= ""
  /\ \E i \in 1..Len(os) : os[i].op = "fun"
  /\ OutputFile("-riscv") = <<>>


(***************************************************************************)
(* SpecScope: an optional global x, then a function f() whose body nests   *)
(* blocks that declare x and y, some of them twice in one scope, and       *)
(* evaluate x as an expression statement.                                  *)
(***************************************************************************)
MaxScopeStmts == 4     \* blocks, declarations and statements of the body

ScopeNames == {"x", "y"}

ScopeRoom == ctl /= <<>> /\ stmts < MaxScopeStmts

NextScope ==
  \/ CompUnitBegin
  \/ items = 0 /\ GlobalDecl(Scalar("x"))
  \/ items <= 1 /\ FuncDefBegin(FuncDef("f", "int", <<>>))
  \/ FuncDefEnd
  \/ ctl /= <<>> /\ (Top.k = "body" \/ ScopeRoom) /\ BlockEnter
  \/ BlockExit
  \/ \E n \in ScopeNames : ScopeRoom /\ BlockDecl(Scalar(n))
  \/ ScopeRoom /\ StmtExp(LVal("x"))

SpecScope == Init /\ [][NextScope]_vars

\* the symbol record a caller hands to add_symbol for a scalar variable
Probe(name) == SymbolInfo(name, 0, FALSE, "var", "i32", <<>>)

\* the scopes below the innermost one
OuterScopes(ts) == SubSeq(ts, 1, Len(ts) - 1)

\* C16: add_symbol(name) returns false exactly when name is bound in the
\* innermost scope, a binding in an outer scope only not counting; then
\* the scopes, the counters and the caller's record are as before; when it
\* returns true the innermost scope has name as its one new binding and
\* nothing else of the scopes is changed.  Checked on every declaration of
\* a block: the call's result, and the scopes and counters after the step.
C16_AddSymbolFrame ==
  [][\A n \in ScopeNames :
       (err = "" /\ BlockDecl(Scalar(n))) =>
         LET r == add_symbol(Cx, Probe(n))
             top == Len(table_stack)
         IN /\ r.ok <=> ~BoundHere(n)
            /\ table_stack' = r.c.ts /\ symbol_counter' = r.c.sc
            /\ ~r.ok => /\ r.c = Cx /\ r.symbol = Probe(n)
                        /\ table_stack' = table_stack
                        /\ symbol_counter' = symbol_counter
            /\ r.ok => /\ Len(table_stack') = top
                       /\ OuterScopes(table_stack') = OuterScopes(table_stack)
                       /\ DOMAIN table_stack'[top] =
                            DOMAIN table_stack[top] \cup {n}
                       /\ \A m \in DOMAIN table_stack[top] :
                            table_stack'[top][m] = table_stack[top][m]
    ]_vars

\* x is bound in an inner scope and in an outer one, and a second
\* declaration of a name in one scope has been refused
C16_Witness ==
  /\ err = ""
  /\ \E i, j \in 1..Len(table_stack) :
       i < j /\ "x" \in DOMAIN table_stack[i] /\ "x" \in DOMAIN table_stack[j]
  /\ \E k \in 1..Len(os) : os[k].op = "alloc" /\ os[k].dst.s = ""


\* the scopes of ts that bind name, and the binding of the innermost of them
Binders(ts, name) == {i \in 1..Len(ts) : name \in DOMAIN ts[i]}

Innermost(ts, name) ==
  ts[CHOOSE i \in Binders(ts, name) : \A j \in Binders(ts, name) : j <= i][name]

\* what lookup(name) returns on ts: the binding b, or none
Finds(ts, name, b) == Bound(ts, name) /\ lookup_symbol(ts, name) = b
FindsNone(ts, name) == ~Bound(ts, name)

\* C17: lookup(name) returns the binding of the innermost scope that binds
\* name and none when no scope does, and an rvalue is lowered with it; a
\* declaration is found under the unique name its alloc was written with;
\* when exit_scope removes the innermost scope, lookup returns what the
\* scopes below it bind, an outer binding that was shadowed coming back as
\* the record it was.
C17_LookupInnermost ==
  [][/\ \A n \in ScopeNames :
          IF Binders(table_stack, n) = {} THEN FindsNone(table_stack, n)
          ELSE Finds(table_stack, n, Innermost(table_stack, n))
     /\ (err = "" /\ StmtExp(LVal("x"))) =>
          IF Binders(table_stack, "x") = {}
            THEN err' = "Undefined variable" /\ os' = os
            ELSE Written = <<Load(Tmp(next_reg),
                                  Sym(Innermost(table_stack, "x").unique_name))>>
     /\ \A n \in ScopeNames :
          (err = "" /\ BlockDecl(Scalar(n)) /\ ~BoundHere(n)) =>
             /\ Finds(table_stack', n, table_stack'[Len(table_stack)][n])
             /\ Written = <<Alloc(Sym(lookup_symbol(table_stack', n).unique_name),
                                  "i32", 0)>>
     /\ \A n \in ScopeNames :
          (err = "" /\ BlockExit) =>
             IF Binders(OuterScopes(table_stack), n) = {}
               THEN FindsNone(table_stack', n)
               ELSE Finds(table_stack', n, Innermost(OuterScopes(table_stack), n))
    ]_vars

\* x_0 was read again after the block that declared x_1 over it was left
C17_Witness ==
  /\ err = "" /\ Len(table_stack) = 2
  /\ \E i, j, k \in 1..Len(os) :
       /\ i < j /\ j < k
       /\ os[i].op = "alloc" /\ os[i].dst = Sym("x_0")
       /\ os[j].op = "alloc" /\ os[j].dst = Sym("x_1")
       /\ os[k].op = "load" /\ os[k].a = Sym("x_0")


(***************************************************************************)
(* The end of a function, under Spec.                                      *)
(***************************************************************************)
\* the body written so far ends in a terminator
EndsTerminated == IsTerminator(os[Len(os)])

EndLine == Line("end", None, None, None)

\* C18: when the lowering of a function definition returns, a default
\* return follows the body if and only if the body block is not terminated,
\* that is, its last line is no ret, jump or br: `ret 0` for an int
\* function, `ret` for a void one; after a terminated body only the closing
\* brace is written.
C18_DefaultReturn ==
  [][(err = "" /\ FuncDefEnd) =>
       /\ ret = "term" <=> EndsTerminated
       /\ Written = IF EndsTerminated THEN <<EndLine>>
                    ELSE IF Top.s = "int" THEN <<Ret(Lit(0)), EndLine>>
                    ELSE <<Ret(None), EndLine>>
    ]_vars

\* a void function whose body ends in a loop was closed by a default `ret`
C18_Witness ==
  /\ Lowered
  /\ \E i \in 1..(Len(os) - 2) :
       /\ os[i] = Label("while_end_0")
       /\ os[i + 1] = Ret(None)
       /\ os[i + 2] = EndLine


(***************************************************************************)
(* SpecInit: one array with a brace initializer of up to two levels of     *)
(* nesting, declared as a global or as the local of a function: with no    *)
(* item, with fewer scalars than elements, with as many, and with more.    *)
(***************************************************************************)
InitDims == FlatDims \cup {<<Num(1)>>}

InitDefs ==
  {Def(FALSE, "a", ds, TRUE, init) : ds \in InitDims, init \in FlatInits}
    \cup {Def(TRUE, "a", <<Num(2), Num(2)>>, TRUE, init) : init \in FlatInits}

NextInit ==
  \/ CompUnitBegin
  \/ \E d \in InitDefs : items = 0 /\ GlobalDecl(d)
  \/ items = 0 /\ FuncDefBegin(FuncDef("f", "void", <<>>))
  \/ FuncDefEnd
  \/ ctl /= <<>> /\ Top.k = "body" /\ BlockEnter
  \/ BlockExit
  \/ \E d \in InitDefs : stmts = 0 /\ BlockDecl(d)

SpecInit == Init /\ [][NextInit]_vars

\* the scalars of an initializer, in the order they are written
RECURSIVE LeafValues(_)
RECURSIVE LeafValuesFrom(_, _)
LeafValuesFrom(inits, i) ==
  IF i > Len(inits) THEN <<>>
  ELSE LeafValues(inits[i]) \o LeafValuesFrom(inits, i + 1)

LeafValues(init) ==
  IF init.t = "list" THEN LeafValuesFrom(init.kids, 1) ELSE <<Lit(init.v)>>

\* the values of a sequence that are no zero, in order
RECURSIVE NonZero(_)
NonZero(values) ==
  IF values = <<>> THEN <<>>
  ELSE IF values[1] = Lit(0) THEN NonZero(Tail(values))
  ELSE <<values[1]>> \o NonZero(Tail(values))

\* the elements of the array of d: the product of its dimensions
Elements(d) == Product([i \in 1..Len(d.dims) |-> d.dims[i].v], 1)

\* values fills the array of d from its initializer: one value for each
\* element; the explicit scalars in their order, as many as fit, all of them
\* when the array has room; zero everywhere else
Fills(values, d) ==
  /\ Len(values) = Elements(d)
  /\ NonZero(values) = SubSeq(LeafValues(d.init), 1, Len(NonZero(values)))
  /\ \/ Len(NonZero(values)) = Len(LeafValues(d.init))
     \/ Len(LeafValues(d.init)) > Elements(d)

\* the values stored by the getelemptr / store pairs of a local array
StoredValues(lines) == [i \in 1..((Len(lines) - 1) \div 2) |-> lines[2 * i + 1].a]

\* lines is the alloc of n elements, then one getelemptr / store pair for
\* each flat index 0 .. n - 1, in increasing order
PairsInOrder(lines, n, reg) ==
  /\ Len(lines) = 1 + 2 * n
  /\ lines[1] = Alloc(Sym("a_0"), "arr", n)
  /\ \A i \in 0..(n - 1) :
       /\ lines[2 * i + 2] = Line("getelemptr", Tmp(reg + i), Sym("a_0"), Lit(i))
       /\ lines[2 * i + 3].op = "store"
       /\ lines[2 * i + 3].b = Tmp(reg + i)

\* C19: an array declaration with an initializer and dimensions d_1..d_k is
\* lowered to exactly d_1 * ... * d_k positions: a global to an aggregate of
\* that many literals, a local to that many getelemptr / store pairs for the
\* flat indices 0, 1, ... in increasing order; the positions that got no
\* explicit initializer are zero, for the empty list and for a list that is
\* shorter than the array too.
C19_ExactlyProductPositions ==
  [][\A d \in InitDefs :
       /\ (GlobalDecl(d) /\ err' = "") =>
            /\ Written = <<ArrayLine>>
            /\ ArrayLine.op = "global" /\ ArrayLine.n = Elements(d)
            /\ Fills(ArrayLine.args, d)
       /\ (BlockDecl(d) /\ err' = "") =>
            /\ PairsInOrder(Written, Elements(d), next_reg)
            /\ Fills(StoredValues(Written), d)
    ]_vars

\* the local a[2][3] = {} was lowered to an alloc and six pairs that store 0
C19_Witness ==
  /\ err = ""
  /\ \E i \in 1..Len(os) :
       /\ i + 12 <= Len(os)
       /\ os[i] = Alloc(Sym("a_0"), "arr", 6)
       /\ \A k \in 0..5 :
            /\ os[i + 2 * k + 1] = Line("getelemptr", Tmp(k), Sym("a_0"), Lit(k))
            /\ os[i + 2 * k + 2] = Store(Lit(0), Tmp(k))


(***************************************************************************)
(* The layout of a frame, under SpecAsm.  The regions are read off the IR  *)
(* of the function and compared with what the generator planned and wrote. *)
(***************************************************************************)
\* the instructions of the function that have a value, and the calls
ValueLines(lines) ==
  {i \in 2..Len(lines) : lines[i].dst /= None /\ lines[i].op /= "label"}

CallLines(lines) == {i \in 2..Len(lines) : lines[i].op = "call"}

\* the bytes of the outgoing-argument area: 4 for each argument past the
\* eighth of the call that has most of them
ArgBytes(lines) ==
  LET over == {0} \cup {Len(lines[i].args) - 8 : i \in CallLines(lines)}
  IN 4 * (CHOOSE m \in over : \A n \in over : n <= m)

RaBytes(lines) == IF CallLines(lines) = {} THEN 0 ELSE 4

\* the bytes of the slot of instruction i: the array of an alloc, else a word
SlotBytes(lines, i) ==
  IF lines[i].op = "alloc" /\ lines[i].ty = "arr" THEN 4 * lines[i].n ELSE 4

RECURSIVE SlotBytesUpTo(_, _)
SlotBytesUpTo(lines, n) ==
  IF n < 2 THEN 0
  ELSE SlotBytesUpTo(lines, n - 1)
       + (IF n \in ValueLines(lines) THEN SlotBytes(lines, n) ELSE 0)

\* line k of the assembly moves reg to or from the word at sp + offset
AccessAt(asm, k, inst, reg, offset) ==
  \/ asm[k] = Mem(inst, reg, offset, "sp")
  \/ /\ k > 2
     /\ asm[k] = Mem(inst, reg, 0, asm[k].rs)
     /\ asm[k - 1] = Op3("add", asm[k].rs, "sp", asm[k].rs)
     /\ asm[k - 2] = Li(asm[k].rs, offset)

\* the layout that st has for the function of lines
LaidOut(lines, st) ==
  /\ DOMAIN st.offs = ValueLines(lines)
  /\ \A i \in ValueLines(lines) :
       /\ st.offs[i] % 4 = 0
       /\ st.offs[i] >= ArgBytes(lines)
       /\ st.offs[i] + SlotBytes(lines, i) <= st.stack_size - RaBytes(lines)
  /\ \A i, j \in ValueLines(lines) :
       i < j => st.offs[i] + SlotBytes(lines, i) <= st.offs[j]
  /\ ValueLines(lines) /= {} =>
       \E i \in ValueLines(lines) : st.offs[i] = ArgBytes(lines)
  /\ st.is_ra_saved <=> CallLines(lines) /= {}
  /\ st.stack_size % 16 = 0
  /\ st.stack_size >= SlotBytesUpTo(lines, Len(lines)) + RaBytes(lines)
                        + ArgBytes(lines)
  /\ st.stack_size < SlotBytesUpTo(lines, Len(lines)) + RaBytes(lines)
                       + ArgBytes(lines) + 16
  /\ CallLines(lines) /= {} =>
       \E k \in 1..Len(st.asm) :
         AccessAt(st.asm, k, "sw", "ra", st.stack_size - 4)

\* C20: in the frame of every function the outgoing-argument area
\* [0, 4 * stack_param_max), the slots of the instructions that have a
\* value (a word each, the whole array for an alloc of one; at offsets that
\* are multiples of 4, from 4 * stack_param_max on) and, when the function
\* calls, the word at frame_size - 4 where ra is saved, are pairwise
\* disjoint and inside [0, frame_size); frame_size is the bytes of the
\* slots + 4 for ra + 4 * stack_param_max, rounded up to a multiple of 16.
C20_FrameRegionsDisjoint ==
  Emitting => LaidOut(FuncLines, be)

\* g, with nine parameters, allocates an array, calls itself with nine
\* arguments and has gone through the generator: its frame has an
\* outgoing-argument word, slots from offset 4 on, and ra in its last word
C20_Witness ==
  /\ be.phase = "done"
  /\ be.name = "g"
  /\ ArgBytes(FuncLines) = 4
  /\ \E i \in ValueLines(FuncLines) :
       FuncLines[i].op = "alloc" /\ FuncLines[i].ty = "arr"
  /\ \E k \in 1..Len(be.asm) : AccessAt(be.asm, k, "sw", "t0", 0)
  /\ \E k \in 1..Len(be.asm) : AccessAt(be.asm, k, "sw", "ra", be.stack_size - 4)


(***************************************************************************)
(* The run of the assembly text of a function, one instruction at a time.  *)
(* Memory is the words that were written; a word never written reads 0.    *)
(* The function is entered with sp at one of EntrySps, its first eight     *)
(* arguments in a0..a7 and the others in the words at and above the sp of  *)
(* entry.  A callee leaves any of Clobbers in a caller-saved register.     *)
(***************************************************************************)
EntrySps == {4096, 8192}
Clobbers == {-1, -2}

ArgRegs == {"a" \o ToString(i) : i \in 0..7}
Regs == {"sp", "ra", "t0", "t1", "t2"} \cup ArgRegs

Peek(mem, addr) == IF addr \in DOMAIN mem THEN mem[addr] ELSE 0
Poke(mem, addr, v) ==
  [w \in DOMAIN mem \cup {addr} |-> IF w = addr THEN v ELSE mem[w]]

\* the result of an instruction of three or two registers
AluRun(ins, reg) ==
  CASE ins.op = "add" -> reg[ins.rs] + reg[ins.rt]
    [] ins.op = "sub" -> reg[ins.rs] - reg[ins.rt]
    [] ins.op = "mul" -> reg[ins.rs] * reg[ins.rt]
    [] ins.op = "div" -> IF reg[ins.rt] = 0 THEN -1 ELSE CDiv(reg[ins.rs], reg[ins.rt])
    [] ins.op = "rem" -> IF reg[ins.rt] = 0 THEN reg[ins.rs]
                         ELSE CMod(reg[ins.rs], reg[ins.rt])
    [] ins.op = "xor" -> BoolInt(reg[ins.rs] /= reg[ins.rt])
    [] ins.op = "sgt" -> BoolInt(reg[ins.rs] > reg[ins.rt])
    [] ins.op = "slt" -> BoolInt(reg[ins.rs] < reg[ins.rt])
    [] ins.op = "and" -> BoolInt(reg[ins.rs] /= 0 /\ reg[ins.rt] /= 0)
    [] ins.op = "or" -> BoolInt(reg[ins.rs] /= 0 \/ reg[ins.rt] /= 0)
    [] ins.op = "seqz" -> BoolInt(reg[ins.rs] = 0)
    [] ins.op = "snez" -> BoolInt(reg[ins.rs] /= 0)
    [] ins.op = "mv" -> reg[ins.rs]

AluOps ==
  {"add", "sub", "mul", "div", "rem", "xor", "sgt", "slt", "and", "or",
   "seqz", "snez", "mv"}

\* the registers after an instruction that is no call
RegRun(ins, x) ==
  CASE ins.op = "li" -> [x.reg EXCEPT ![ins.rd] = ins.imm]
    [] ins.op = "addi" -> [x.reg EXCEPT ![ins.rd] = x.reg[ins.rs] + ins.imm]
    [] ins.op = "lw" ->
         [x.reg EXCEPT ![ins.rd] = Peek(x.mem, x.reg[ins.rs] + ins.imm)]
    [] ins.op \in AluOps -> [x.reg EXCEPT ![ins.rd] = AluRun(ins, x.reg)]
    [] OTHER -> x.reg

\* the place control goes to after an instruction that is no call
AsmNextPc(asm, pc, x) ==
  IF asm[pc].op = "j" \/ (asm[pc].op = "bnez" /\ x.reg[asm[pc].rs] /= 0)
    THEN CHOOSE i \in 1..Len(asm) : asm[i] = AsmLabel(asm[pc].sym)
    ELSE pc + 1

\* what the caller hands the function: argument i in a<i> below eight, in
\* the word at sp + 4 * (i - 8) from eight on
EntryRegs(args, sp) ==
  [r \in Regs |->
     IF r = "sp" THEN sp
     ELSE IF \E i \in 1..Len(args) : i <= 8 /\ r = "a" \o ToString(i - 1)
       THEN args[CHOOSE i \in 1..Len(args) : r = "a" \o ToString(i - 1)]
     ELSE 0]

EntryMem(args, sp) ==
  [w \in {sp + 4 * (i - 9) : i \in 9..Len(args)} |->
     args[(w - sp) \div 4 + 9]]

AsmBegin(args, sp) ==
  /\ be.phase = "done" /\ ex = Idle
  /\ Len(args) = Len(FuncLines[1].args)
  /\ ex' = [phase |-> "asm", pc |-> 1, reg |-> EntryRegs(args, sp),
            mem |-> EntryMem(args, sp), args |-> args, rets |-> <<>>,
            sp0 |-> sp]
  /\ Unchanged

AsmStep ==
  /\ ex.phase = "asm"
  /\ be.asm[ex.pc].op \notin {"call", "ret"}
  /\ ex' = [ex EXCEPT
              !.pc = AsmNextPc(be.asm, ex.pc, ex),
              !.reg = RegRun(be.asm[ex.pc], ex),
              !.mem = IF be.asm[ex.pc].op = "sw"
                        THEN Poke(@, ex.reg[be.asm[ex.pc].rs] + be.asm[ex.pc].imm,
                                  ex.reg[be.asm[ex.pc].rd])
                        ELSE @]
  /\ Unchanged

\* a call: the callee returns v in a0, keeps sp and the frame, and leaves
\* k in every other register
AsmCall(v, k) ==
  /\ ex.phase = "asm"
  /\ be.asm[ex.pc].op = "call"
  /\ ex' = [ex EXCEPT
              !.pc = @ + 1,
              !.reg = [r \in Regs |-> IF r = "a0" THEN v
                                      ELSE IF r = "sp" THEN ex.reg["sp"]
                                      ELSE k],
              !.rets = Append(@, v)]
  /\ Unchanged

AsmRet ==
  /\ ex.phase = "asm"
  /\ be.asm[ex.pc].op = "ret"
  /\ ex' = [ex EXCEPT !.phase = "returned"]
  /\ Unchanged

(***************************************************************************)
(* SpecCall: a function of ten parameters, or a function that calls it, is *)
(* lowered, given to the code generator, and its assembly is run.  The     *)
(* arguments of the calls are literals and results of getint.              *)
(***************************************************************************)
MaxCallStmts == 2    \* statements of a function body whose assembly is run

TenParams == [i \in 1..10 |-> Param("p" \o ToString(i), FALSE, <<>>)]

CallFuncs == {FuncDef("main", "int", <<>>), FuncDef("g", "int", TenParams)}

TenArgs ==
  {[i \in 1..10 |-> Num(i)],
   [i \in 1..10 |-> IF i \in {1, 3, 9} THEN Call("getint", <<>>) ELSE Num(i)],
   [i \in 1..10 |-> IF i \in {2, 8, 10} THEN Call("getint", <<>>) ELSE Num(i)]}

CallResults ==
  {Call("g", args) : args \in TenArgs}
  \cup {LVal("p1"), LVal("p8"), LVal("p9"), LVal("p10"), Call("getint", <<>>)}

\* the values the ten-parameter function is entered with
EntryArgs(n) == [i \in 1..n |-> 10 + i]

CallRoom == ctl /= <<>> /\ stmts < MaxCallStmts

NextCall ==
  \/ CompUnitBegin
  \/ \E f \in CallFuncs : items = 0 /\ FuncDefBegin(f)
  \/ FuncDefEnd
  \/ ctl /= <<>> /\ Top.k = "body" /\ BlockEnter
  \/ BlockExit
  \/ CallRoom /\ BlockDecl(Def(FALSE, "c", <<Num(600)>>, FALSE, NoInit))
  \/ \E e \in CallResults : CallRoom /\ StmtReturn(TRUE, e)
  \/ VisitFunctionBegin
  \/ VisitNext
  \/ VisitFunctionEnd
  \/ \E n \in {0, 10} : \E sp \in EntrySps : AsmBegin(EntryArgs(n), sp)
  \/ AsmStep
  \/ \E v \in {0, 2}, k \in Clobbers : AsmCall(v, k)
  \/ AsmRet

SpecCall == Init /\ [][NextCall]_vars


\* the calls of the IR, and the place of the n-th of them
CallPlaces(lines) == {i \in 1..Len(lines) : lines[i].op = "call"}

CallNumber(lines, i) == Cardinality({j \in CallPlaces(lines) : j <= i})

NthCall(lines, n) == CHOOSE i \in CallPlaces(lines) : CallNumber(lines, i) = n

\* the IR call whose `call` instruction is at place pc of the assembly
CallAt(lines, asm, pc) ==
  lines[NthCall(lines, Cardinality({k \in 1..pc : asm[k].op = "call"}))]

\* the value of an operand of a call: the literal, what the call that
\* defines it returned, or what the slot of its definition holds
ValueOf(lines, v, x) ==
  IF v.k = "lit" THEN v.n
  ELSE IF lines[DefLine(lines, v)].op = "call"
    THEN x.rets[CallNumber(lines, DefLine(lines, v))]
  ELSE Peek(x.mem, x.reg["sp"] + be.offs[DefLine(lines, v)])

\* where the calling convention has argument j (from 1) when `call` executes
ArgPlace(j, x) ==
  IF j <= 8 THEN x.reg["a" \o ToString(j - 1)]
  ELSE Peek(x.mem, x.reg["sp"] + 4 * (j - 9))

AtCall == ex.phase = "asm" /\ be.asm[ex.pc].op = "call"

CallerPlaces ==
  AtCall =>
    \A j \in 1..Len(CallAt(FuncLines, be.asm, ex.pc).args) :
      ArgPlace(j, ex) = ValueOf(FuncLines, CallAt(FuncLines, be.asm, ex.pc).args[j], ex)

\* the alloc that parameter i of the function is promoted to
ParamSlot(lines, i) ==
  CHOOSE j \in 2..Len(lines) :
    lines[j].op = "alloc" /\ lines[j].dst = Sym(lines[1].args[i].s)

AtEpilogue ==
  ex.phase = "asm" /\ be.asm[ex.pc] = AsmLabel(LocalLabel(be, "end"))

\* the body has run: the slot of every parameter holds what the caller put
\* in the place of that argument
CalleeReads ==
  AtEpilogue =>
    \A i \in 1..Len(FuncLines[1].args) :
      Peek(ex.mem, ex.reg["sp"] + be.offs[ParamSlot(FuncLines, i)]) = ex.args[i]

\* C21: caller and callee agree on the place of every argument.  When a
\* `call` executes, argument i below eight is in a<i> and argument i from
\* eight on is in the word at sp + 4 * (i - 8): no load of a later argument
\* has overwritten it.  A function entered with its arguments in those
\* places (its sp of entry is the sp of the caller) reads every parameter
\* from there, before anything of the function overwrites the register: the
\* slot a parameter is promoted to holds the value of the argument.
C21_ArgumentsAgree == CallerPlaces /\ CalleeReads

\* a call of ten arguments is about to execute; its first and ninth
\* arguments are results of getint that differ
C21_Witness ==
  /\ AtCall
  /\ be.asm[ex.pc].sym = "g"
  /\ ex.rets = <<2, 0, 2>>
  /\ be.stack_size > 2047
  /\ ArgPlace(1, ex) = 2 /\ ArgPlace(3, ex) = 0 /\ ArgPlace(9, ex) = 2
  /\ ArgPlace(10, ex) = 10

\* the function of ten parameters has returned its ninth
C21_CalleeWitness ==
  /\ ex.phase = "returned"
  /\ Len(ex.args) = 10
  /\ be.stack_size > 2047
  /\ ex.reg["a0"] = ex.args[9]
  /\ ex.reg["sp"] = ex.sp0



(***************************************************************************)
(* Visit(program): the global values, then every function of the IR in     *)
(* the order of the text, all written to one assembly file.                *)
(***************************************************************************)
\* the closing brace of the function whose `fun` line is at place i
FunEnd(lines, i) ==
  CHOOSE j \in i..Len(lines) :
    lines[j].op = "end" /\ \A k \in i..(j - 1) : lines[k].op /= "end"

\* Visit(func->bbs)
RECURSIVE VisitBlocks(_, _, _)
VisitBlocks(lines, i, st) ==
  IF lines[i].op = "end" THEN <<>>
  ELSE VisitValue(lines, i, st) \o VisitBlocks(lines, i + 1, st)

\* Visit(function), of the lines from `fun` to the brace
VisitFunction(lines) ==
  Prologue(Planned(lines, CalculateStackSize(lines)))
  \o VisitBlocks(lines, 2, Planned(lines, CalculateStackSize(lines)))
  \o Epilogue(Planned(lines, CalculateStackSize(lines)))

\* the GLOBAL_ALLOC arm of Visit(value)
RECURSIVE WordLines(_, _)
WordLines(values, i) ==
  IF i > Len(values) THEN <<>>
  ELSE <<Asm(".word", "", "", "", values[i], "")>> \o WordLines(values, i + 1)

VisitGlobal(line) ==
  <<AsmLabel(line.dst.s)>>
  \o (IF line.l1 = "zeroinit"
        THEN <<Asm(".zero", "", "", "", get_array_size(line), "")>>
        ELSE WordLines(line.args, 1))

\* Visit(program.values) for kind = "global", Visit(program.funcs) for "fun"
RECURSIVE VisitSlice(_, _, _)
VisitSlice(lines, kind, i) ==
  IF i > Len(lines) THEN <<>>
  ELSE IF lines[i].op = kind /\ kind = "global"
    THEN VisitGlobal(lines[i]) \o VisitSlice(lines, kind, i + 1)
  ELSE IF lines[i].op = kind
    THEN VisitFunction(SubSeq(lines, i, FunEnd(lines, i)))
         \o VisitSlice(lines, kind, FunEnd(lines, i) + 1)
  ELSE VisitSlice(lines, kind, i + 1)

VisitProgram ==
  /\ be = Idle
  /\ Lowered
  /\ be' = [phase |-> "program",
            asm |-> VisitSlice(os, "global", 1) \o VisitSlice(os, "fun", 1)]
  /\ UNCHANGED <<table_stack, symbol_counter, loop_stack, next_reg,
                 if_stmt_count, lor_stmt_count, land_stmt_count,
                 while_stmt_count, os, err, ctl, ret, items, stmts, ex>>

(***************************************************************************)
(* SpecLabels: compilation units of a global and a function, or of two     *)
(* functions, whose bodies return and branch on if; the whole unit is      *)
(* given to the code generator.                                            *)
(***************************************************************************)
MaxLabelStmts == 2   \* statements of a function body of SpecLabels

LabelFuncs ==
  {FuncDef(n, "int", <<>>) : n \in {"main", "main_end", "main_then_0", "f"}}

LabelRoom == ctl /= <<>> /\ stmts < MaxLabelStmts

NextLabels ==
  \/ CompUnitBegin
  \/ items = 0 /\ GlobalDecl(Scalar("x"))
  \/ \E f \in LabelFuncs : FuncDefBegin(f)
  \/ FuncDefEnd
  \/ ctl /= <<>> /\ Top.k = "body" /\ BlockEnter
  \/ BlockExit
  \/ LabelRoom /\ StmtReturn(TRUE, Num(0))
  \/ LabelRoom /\ StmtIfBegin(Num(1), FALSE)
  \/ IfThenDone
  \/ VisitProgram

SpecLabels == Init /\ [][NextLabels]_vars

\* the places of the assembly that define a label
LabelDefs(asm) == {i \in 1..Len(asm) : asm[i].op = "label"}

\* the names of the functions of the IR
FunNames(lines) == {lines[i].name : i \in {j \in 1..Len(lines) : lines[j].op = "fun"}}

\* C22: all labels defined in the emitted assembly are pairwise distinct
\* across the whole program, for any legal function names: the entry label
\* of a function, the labels of its blocks and the label of its epilogue
\* never coincide with a label of the same or of another function.
C22_LabelsDistinct ==
  be.phase = "program" =>
    \A i, j \in LabelDefs(be.asm) : i /= j => be.asm[i].sym /= be.asm[j].sym

\* the program has the functions main_end and main, with distinct names in
\* the IR; the epilogue label of main is the entry label of main_end
C22_Witness ==
  /\ be.phase = "program"
  /\ FunNames(os) = {"main", "main_end"}
  /\ Cardinality({i \in 1..Len(os) : os[i].op = "fun"}) = 2
  /\ Cardinality({i \in LabelDefs(be.asm) : be.asm[i].sym = "main_end"}) = 2



(***************************************************************************)
(* SpecIf: one function whose body nests if and if/else over returns,      *)
(* assignments, empty statements, blocks, and a loop with break.           *)
(***************************************************************************)
MaxIfStmts == 4      \* statements of a function body of SpecIf

IfRoom == stmts < MaxIfStmts

NextIf ==
  \/ CompUnitBegin
  \/ items = 0 /\ FuncDefBegin(FuncDef("f", "int", <<Param("x", FALSE, <<>>)>>))
  \/ FuncDefEnd
  \/ ctl /= <<>> /\ (Top.k = "body" \/ IfRoom) /\ BlockEnter
  \/ BlockExit
  \/ IfRoom /\ StmtReturn(TRUE, Num(0))
  \/ IfRoom /\ StmtAssign(X, Num(1))
  \/ StmtEmpty
  \/ IfRoom /\ StmtBreak
  \/ \E has_else \in BOOLEAN : IfRoom /\ StmtIfBegin(X, has_else)
  \/ IfThenDone
  \/ IfElseDone
  \/ IfRoom /\ StmtWhileBegin(X)
  \/ WhileDone

SpecIf == Init /\ [][NextIf]_vars

\* a jump or a branch of the IR names the label
Targets(l) ==
  \E i \in 1..Len(os) :
    \/ os[i] = Jump(l)
    \/ os[i].op = "br" /\ l \in {os[i].l1, os[i].l2}

\* the if statement of this id has not returned
IfOpen(id) ==
  \E k \in 1..Len(ctl) : ctl[k].k \in {"if_then", "if_else"} /\ ctl[k].id = id

\* the step is the return of the then arm of an if without else, or the
\* return of the else arm: the if statement returns
IfReturns ==
  \/ IfThenDone /\ ~Top.flag
  \/ IfElseDone

\* is_terminated of the then arm of the if that is on top
ThenArmTerminated == IF Top.k = "if_else" THEN Top.flag ELSE ret = "term"

EndLabelRule ==
  /\ (err = "" /\ IfReturns) =>
       /\ ret' = "term" <=>
            (Top.k = "if_else" /\ ThenArmTerminated /\ ret = "term")
       /\ Label(Suffix("if_end", Top.id)) \in {Written[i] : i \in 1..Len(Written)}
            <=> ret' /= "term"
  /\ (err = "" /\ (IfThenDone \/ IfElseDone)) =>
       (Jump(Suffix("if_end", Top.id)) \in {Written[i] : i \in 1..Len(Written)}
          <=> ret /= "term")

EndLabelReached ==
  err = "" =>
    \A id \in 0..MaxStmts :
      /\ IfOpen(id) => ~HasLabel(Suffix("if_end", id))
      /\ ~IfOpen(id) =>
           (HasLabel(Suffix("if_end", id)) <=> Targets(Suffix("if_end", id)))

\* C23: an if statement reports terminated exactly when it has an else arm
\* and both arms are terminated; it writes its end label exactly when it is
\* not terminated, and a jump to the end label after an arm exactly when
\* that arm is not terminated.  So the end label of an if that has returned
\* is in the IR exactly when a jump or a branch names it.
C23_IfEndLabel == [][EndLabelRule]_vars /\ []EndLabelReached

\* an if/else whose arms both return, nested in the then arm of an if
\* without else: the inner if has no end label, the outer one has
C23_Witness ==
  /\ Lowered
  /\ HasLabel("else_1") /\ ~HasLabel("if_end_1") /\ ~Targets("if_end_1")
  /\ ~HasLabel("else_0") /\ HasLabel("if_end_0") /\ ~HasJump("if_end_0")



(***************************************************************************)
(* SpecReset: compilation units of a function with the parameter x and of  *)
(* functions without parameter after it, whose bodies declare x and hold   *)
(* an if and a loop on a condition with || and &&.                         *)
(***************************************************************************)
MaxResetStmts == 2   \* statements of a function body of SpecReset

ResetFuncs ==
  {FuncDef("g", "int", <<Param("x", FALSE, <<>>)>>), FuncDef("f", "int", <<>>)}

ResetRoom == stmts < MaxResetStmts

NextReset ==
  \/ CompUnitBegin
  \/ \E f \in ResetFuncs : (items = 0 <=> f.params /= <<>>) /\ FuncDefBegin(f)
  \/ FuncDefEnd
  \/ ctl /= <<>> /\ Top.k = "body" /\ BlockEnter
  \/ BlockExit
  \/ ResetRoom /\ BlockDecl(Scalar("x"))
  \/ ResetRoom /\ StmtIfBegin(Num(1), FALSE)
  \/ ctl /= <<>> /\ Top.k = "stmt" /\ StmtEmpty
  \/ IfThenDone
  \/ ResetRoom /\ StmtWhileBegin(LOr(Num(0), LAnd(Num(1), Num(1))))
  \/ WhileDone

SpecReset == Init /\ [][NextReset]_vars

\* the counters of temporaries and labels are zero
NamingCountersZero ==
  /\ next_reg' = 0
  /\ if_stmt_count' = 0 /\ lor_stmt_count' = 0
  /\ land_stmt_count' = 0 /\ while_stmt_count' = 0

\* symbol_counter after the head of the function, had the reset emptied it:
\* one count for every parameter
CountersOfParams(f) ==
  [n \in {f.params[i].ident : i \in 1..Len(f.params)} |-> 1]

\* symbol_counter after the head of the function, had the reset kept it
CountersKept(f) ==
  [n \in DOMAIN symbol_counter \cup DOMAIN CountersOfParams(f) |->
     CounterOf(symbol_counter, n) + CounterOf(CountersOfParams(f), n)]

\* the lines of the k-th function of the IR
FunPlaces == {i \in 1..Len(os) : os[i].op = "fun"}

KthFun(k) ==
  IF Cardinality(FunPlaces) < k THEN <<>>
  ELSE LET first == CHOOSE i \in FunPlaces :
                      Cardinality({j \in FunPlaces : j <= i}) = k
       IN SubSeq(os, first,
                 IF \E j \in FunPlaces : j > first
                   THEN (CHOOSE j \in FunPlaces : j > first) - 1
                   ELSE Len(os))

\* the suffixes of the allocs of an identifier among the lines
SuffixesOf(lines, n) ==
  {j \in 0..MaxResetStmts :
     \E i \in 1..Len(lines) : lines[i] = Alloc(Sym(Suffix(n, j)), "i32", 0)}

SuffixesIn(k, n) == SuffixesOf(KthFun(k), n)

\* the alloc of <n>_<j> comes after the alloc of <n>_<j - 1> of the same
\* function
NumberedFromZero(n) ==
  \A i \in 1..Len(os), j \in 1..(MaxResetStmts + 1) :
    os[i] = Alloc(Sym(Suffix(n, j)), "i32", 0) =>
      \E k \in 1..(i - 1) :
        /\ os[k] = Alloc(Sym(Suffix(n, j - 1)), "i32", 0)
        /\ \A m \in k..i : os[m].op /= "fun"

MaxTempStmts == 2    \* statements of a function body of SpecTemps

TempFunc(n) ==
  FuncDef(n, "int", <<Param("x", FALSE, <<>>), Param("p", TRUE, <<>>)>>)

TempExprs ==
  {Bin("+", X, LOr(X, Num(1))),
   LOr(LAnd(X, Call("getint", <<>>)), Un("!", X)),
   Bin("*", Idx("a", <<X, LAnd(X, X)>>), Idx("p", <<X>>)),
   Call("putint", <<Bin("-", Call("getint", <<>>), LOr(X, X))>>),
   Un("-", Num(3))}

TempAssigns ==
  {<<X, LOr(X, Num(0))>>,
   <<Idx("a", <<X, Num(1)>>), LAnd(X, X)>>,
   <<Idx("p", <<LOr(X, X)>>), X>>}

\* the first function of the unit is the one being lowered
FirstFunc == items = 1 /\ stmts < MaxTempStmts

NextTemps ==
  \/ CompUnitBegin
  \/ \E n \in {"f", "g"} : (items = 0 <=> n = "f") /\ FuncDefBegin(TempFunc(n))
  \/ FuncDefEnd
  \/ ctl /= <<>> /\ Top.k = "body" /\ BlockEnter
  \/ BlockExit
  \/ FirstFunc /\ BlockDecl(Def(FALSE, "a", <<Num(2), Num(2)>>, FALSE, NoInit))
  \/ \E e \in TempExprs : FirstFunc /\ StmtReturn(TRUE, e)
  \/ \E as \in TempAssigns : FirstFunc /\ StmtAssign(as[1], as[2])
  \/ FirstFunc /\ StmtIfBegin(LOr(X, X), FALSE)
  \/ ctl /= <<>> /\ Top.k = "stmt" /\ StmtEmpty
  \/ IfThenDone
  \/ items > 1 /\ stmts = 0 /\ StmtReturn(TRUE, Bin("+", X, X))

SpecTemps == Init /\ [][NextTemps]_vars

\* the temporaries a line uses
TmpsOf(line) ==
  {t \in {line.a, line.b} \cup {line.args[i] : i \in 1..Len(line.args)} :
     t.k = "tmp"}

\* the lines before place i, in the function of place i, that define a
\* temporary
DefsBefore(i) ==
  {j \in 1..(i - 1) :
     os[j].dst.k = "tmp" /\ \A m \in (j + 1)..i : os[m].op /= "fun"}

\* C25: within each emitted function the temporaries are numbered in the
\* order of emission.  The line that defines a temporary gives it the
\* number of definitions before it in the function, so the temporaries of
\* a function are %0, %1, ... without a gap, each defined once, in strictly
\* increasing order, from %0 again in every function; a line uses only
\* temporaries defined before it in the function.
C25_TemporariesInOrder ==
  err = "" =>
    \A i \in 1..Len(os) :
      /\ os[i].dst.k = "tmp" => os[i].dst.n = Cardinality(DefsBefore(i))
      /\ \A t \in TmpsOf(os[i]) : t.n < Cardinality(DefsBefore(i))

\* two functions are lowered; the first has eleven temporaries or more,
\* over short-circuit blocks and index arithmetic, the second starts at %0
C25_Witness ==
  /\ Lowered
  /\ Cardinality({i \in 1..Len(os) : os[i].op = "fun"}) = 2
  /\ Cardinality({i \in 1..Len(os) : os[i].dst = Tmp(0)}) = 2
  /\ \E i \in 1..Len(os) : os[i].dst = Tmp(10)
  /\ \E i \in 1..Len(os) : os[i].op = "getptr"
  /\ \E i \in 1..Len(os) : os[i].op = "getelemptr"
  /\ HasLabel("land_end_0")

\* the place of the definition of a temporary that the line at u uses
DefPlace(u, t) == CHOOSE d \in DefsBefore(u) : os[d].dst = t

ShortLabel(kind, part, n) == Label(Suffix(kind \o part, n))

\* the label is the eval_rhs label or the end label of a short-circuit
\* expression; when it is the end label, the eval_rhs label of the same
\* expression is at or after place d too
ShortLabelFrom(d, m) ==
  \E kind \in {"lor", "land"}, n \in 0..(2 * MaxTempStmts) :
    \/ os[m] = ShortLabel(kind, "_eval_rhs", n)
    \/ /\ os[m] = ShortLabel(kind, "_end", n)
       /\ \E k \in d..m : os[k] = ShortLabel(kind, "_eval_rhs", n)

\* C26, as the code has it: every use of a temporary follows its definition
\* in the same function, and the only labels between the two are labels of
\* short-circuit expressions that are evaluated wholly between them.  So
\* the block of the definition is the block of the use or is passed on
\* every way to it; a temporary defined in the block of a right operand is
\* not used after the end label, where the result is loaded from its slot.
C26_UsesFollowDefinition ==
  err = "" =>
    \A u \in 1..Len(os) : \A t \in TmpsOf(os[u]) :
      /\ \E d \in DefsBefore(u) : os[d].dst = t
      /\ \A m \in DefPlace(u, t)..u :
           os[m].op = "label" => ShortLabelFrom(DefPlace(u, t), m)

\* C26, as it is written: every use of a temporary is in the basic block of
\* its definition, also when the right operand of an operator holds a
\* short-circuit operator.
C26_UsesInDefinitionBlock ==
  err = "" =>
    \A u \in 1..Len(os) : \A t \in TmpsOf(os[u]) :
      \A m \in DefPlace(u, t)..u : os[m].op /= "label"

\* x + (x || 1) is lowered: the add in the block of lor_end_0 uses the load
\* of x, which is before the branch
C26_Witness ==
  /\ err = ""
  /\ \E u \in 1..Len(os) :
       /\ os[u].op = "add" /\ os[u].a = Tmp(0) /\ os[u].b.k = "tmp"
       /\ os[DefPlace(u, Tmp(0))].op = "load"
       /\ \E m \in DefPlace(u, Tmp(0))..u : os[m] = Label("lor_end_0")
       /\ \E m \in DefPlace(u, Tmp(0))..u : os[m] = Label("lor_eval_rhs_0")



(***************************************************************************)
(* SpecDims: arrays whose lengths are zero, negative or positive are       *)
(* declared, const or not, with and without an initializer, as globals and *)
(* in the body of a function with an array parameter.                      *)
(***************************************************************************)
MaxDimStmts == 2     \* declarations of a function body of SpecDims

DimLengths ==
  {<<Num(2)>>, <<Num(0)>>, <<Un("-", Num(1))>>, <<Num(2), Num(0)>>}

DimInits == {NoInit, List(<<>>), List(<<Num(1)>>)}

DimDefs ==
  {Def(is_const, "a", dims, init /= NoInit, init) :
     is_const \in BOOLEAN, dims \in DimLengths, init \in DimInits}
  \ {Def(TRUE, "a", dims, FALSE, NoInit) : dims \in DimLengths}

NextDims ==
  \/ CompUnitBegin
  \/ \E d \in DimDefs : items = 0 /\ GlobalDecl(d)
  \/ FuncDefBegin(FuncDef("f", "int", <<Param("p", TRUE, <<Num(2)>>)>>))
  \/ FuncDefEnd
  \/ ctl /= <<>> /\ Top.k = "body" /\ BlockEnter
  \/ BlockExit
  \/ \E d \in DimDefs : stmts < MaxDimStmts /\ BlockDecl(d)
  \/ stmts < MaxDimStmts /\ StmtReturn(TRUE, Idx("a", <<Num(0)>>))

SpecDims == Init /\ [][NextDims]_vars

\* a length of the declaration evaluates to zero or less
NonPositive(d) ==
  \E i \in 1..Len(d.dims) : evaluate_const(d.dims[i], table_stack).v <= 0

\* the array symbols that declarations entered, in any scope
DeclaredArrays ==
  {table_stack[s]["a"] : s \in {k \in 1..Len(table_stack) :
                                  "a" \in DOMAIN table_stack[k]}}

\* C27: a const or variable array declaration whose length evaluates to
\* zero or to a negative number is rejected with an error before anything
\* is written and before the initializer is flattened, so every array
\* symbol that a declaration entered in the symbol table has only positive
\* lengths, and no array of zero or fewer elements is allocated.
C27_LengthsPositive ==
  /\ [][\A d \in DimDefs :
          (err = "" /\ NonPositive(d) /\ (GlobalDecl(d) \/ BlockDecl(d))) =>
            (Rejected /\ table_stack' = table_stack)]_vars
  /\ [](\A symbol \in DeclaredArrays :
          \A i \in 1..Len(symbol.dimensions) : symbol.dimensions[i] > 0)
  /\ [](\A i \in 1..Len(os) :
          os[i].op \in {"alloc", "global"} /\ os[i].ty = "arr" => os[i].n > 0)

\* `int a[0];` was lowered in the body of f without an error: the symbol
\* has the length 0, like the array parameter p, and an array of no
\* element is allocated and then indexed
C27_Witness ==
  /\ Lowered
  /\ \E i \in 1..Len(os) : os[i].op = "alloc" /\ os[i].ty = "arr" /\ os[i].n = 0
  /\ \E i \in 1..Len(os) : os[i].op = "getelemptr"

\* the initializer of an array with a zero length was flattened
C27_DividesByZero == err = "division by zero"



\* the generate_ir calls that have not returned and hold a scope: a
\* function definition (the scope of its parameters) and every block
ScopeHolders == {k \in 1..Len(ctl) : ctl[k].k \in {"func", "block"}}

\* C28: scope entries and exits are balanced while lowering has not
\* failed.  The scope stack holds the global scope and one scope for every
\* function definition and block that has not returned, so lowering a block
\* or a function definition leaves the stack at the depth it had before and
\* the stack is never empty; is_global_scope() is true exactly between the
\* top-level items, where function symbols and globals are inserted, and
\* false while a function is lowered: no function symbol is bound in a
\* scope other than scope 0.
C28_ScopesBalanced ==
  err = "" =>
    /\ table_stack /= <<>>
    /\ Len(table_stack) = 1 + Cardinality(ScopeHolders)
    /\ is_global_scope(table_stack) <=> ctl = <<>>
    /\ \A s \in 2..Len(table_stack) : \A n \in DOMAIN table_stack[s] :
         table_stack[s][n].kind /= "func"

\* a global and a function are lowered and the scope stack is back at the
\* global scope, after the body of the function declared x and nested a
\* block that declared x again
C28_Witness ==
  /\ Lowered
  /\ items = 2
  /\ is_global_scope(table_stack)
  /\ {"x", "f"} \subseteq DOMAIN table_stack[1]
  /\ \E i \in 1..Len(os) : os[i] = Alloc(Sym("x_0"), "i32", 0)
  /\ \E i \in 1..Len(os) : os[i] = Alloc(Sym("x_1"), "i32", 0)



(***************************************************************************)
(* SpecSlots: a function with the parameter x whose body, over nested      *)
(* blocks, declares locals named x, x_0, lor_res and land_res, none of     *)
(* them twice in one scope, and evaluates || and &&.                       *)
(***************************************************************************)
MaxSlotStmts == 3    \* statements of a function body of SpecSlots

SlotNames == {"x", "x_0", "lor_res", "land_res"}

SlotRoom == stmts < MaxSlotStmts

NextSlots ==
  \/ CompUnitBegin
  \/ items = 0 /\ FuncDefBegin(FuncDef("f", "int", <<Param("x", FALSE, <<>>)>>))
  \/ FuncDefEnd
  \/ ctl /= <<>> /\ (Top.k = "body" \/ SlotRoom) /\ BlockEnter
  \/ BlockExit
  \/ \E n \in SlotNames : SlotRoom /\ ~BoundHere(n) /\ BlockDecl(Scalar(n))
  \/ SlotRoom /\ StmtExp(LOr(X, Num(1)))
  \/ SlotRoom /\ StmtExp(LAnd(X, LOr(Num(1), X)))

SpecSlots == Init /\ [][NextSlots]_vars

\* the places of the allocs of the IR
AllocPlaces == {i \in 1..Len(os) : os[i].op = "alloc"}

\* C29: within one emitted function no two alloc instructions define the
\* same name: the uniquified names of the locals and of the promoted
\* parameters are pairwise distinct, whatever the identifiers are, and none
\* of them is the name of a result slot lor_res_N or land_res_N of the
\* function.
C29_AllocNamesDistinct ==
  err = "" =>
    \A i, j \in AllocPlaces :
      (i < j /\ \A m \in i..j : os[m].op /= "fun") => os[i].dst /= os[j].dst

\* the function declares a local lor_res and evaluates ||: the IR of the
\* function allocates @lor_res_0 twice
C29_Witness ==
  /\ Lowered
  /\ "lor_res" \notin DOMAIN table_stack[1]
  /\ Cardinality({i \in AllocPlaces : os[i].dst = Sym("lor_res_0")}) = 2
  /\ HasLabel("lor_end_0")



(***************************************************************************)
(* SpecStore: a function whose body declares a const scalar c and a        *)
(* variable x, after a global g or none, and assigns to and reads c, x, g, *)
(* and the function symbols f and getint.                                  *)
(***************************************************************************)
MaxStoreStmts == 3   \* statements of a function body of SpecStore

StoreDecls == {Def(TRUE, "c", <<>>, TRUE, Num(1)), Scalar("x")}

StoreNames == {"c", "x", "g", "f", "getint"}

StoreRoom == stmts < MaxStoreStmts

NextStore ==
  \/ CompUnitBegin
  \/ items = 0 /\ GlobalDecl(Scalar("g"))
  \/ items <= 1 /\ FuncDefBegin(FuncDef("f", "int", <<>>))
  \/ FuncDefEnd
  \/ ctl /= <<>> /\ Top.k = "body" /\ BlockEnter
  \/ BlockExit
  \/ \E d \in StoreDecls : StoreRoom /\ ~BoundHere(d.ident) /\ BlockDecl(d)
  \/ \E n \in StoreNames : StoreRoom /\ StmtAssign(LVal(n), Num(2))
  \/ \E n \in StoreNames : StoreRoom /\ StmtReturn(TRUE, LVal(n))

SpecStore == Init /\ [][NextStore]_vars

\* a global allocation before place i, or an alloc before place i in the
\* function of place i, defines the name
AllocatedBefore(i, v) ==
  \E j \in 1..(i - 1) :
    \/ os[j].op = "global" /\ os[j].dst = v
    \/ os[j].op = "alloc" /\ os[j].dst = v /\ \A m \in j..i : os[m].op /= "fun"

\* C30: in the emitted IR every load source and every store destination of
\* the form @name is the name of a global allocation emitted earlier or of
\* an alloc emitted earlier in the same function; an assignment never
\* stores to a name that was never allocated, such as the name of a const
\* scalar or of a function.
C30_AccessesAllocated ==
  err = "" =>
    \A i \in 1..Len(os) :
      /\ (os[i].op = "load" /\ os[i].a.k = "sym") => AllocatedBefore(i, os[i].a)
      /\ (os[i].op = "store" /\ os[i].b.k = "sym") => AllocatedBefore(i, os[i].b)

\* `const int c = 1; c = 2;` was lowered without an error: the IR stores
\* to @c_0, which no line allocates
C30_Witness ==
  /\ Lowered
  /\ \E i \in 1..Len(os) : os[i] = Store(Lit(2), Sym("c_0"))
  /\ \A i \in 1..Len(os) : os[i].dst /= Sym("c_0")


=============================================================================
